---- MODULE Spec2Model ----
(***************************************************************************)
(* A model of the content pipeline of the blog: the content repository     *)
(* accessor (src/lib/posts.ts), the Markdown pipeline with its diagram     *)
(* placeholders (src/lib/markdown.ts), and the page components that        *)
(* consume them.                                                           *)
(*                                                                         *)
(* JavaScript strings are sequences of one-character strings; the value    *)
(* undefined is Undefined; a call that can throw returns a record          *)
(* [ok, val] with ok = FALSE when it threw.                                *)
(***************************************************************************)
EXTENDS Integers, Sequences, FiniteSets, TLC

VARIABLES dir, text, doc, op, arg, ret, screen

vars == <<dir, text, doc, op, arg, ret, screen>>

(***************************************************************************)
(* Bounds of the model.                                                    *)
(***************************************************************************)
MaxFiles == 3
MaxPage == 4
MaxPageSize == 2
MaxTextLen == 4
MaxExcerptInput == 12
MaxChartLen == 2
MaxCharts == 2
MaxBodyLines == 4
MaxDiagrams == 2
MaxSegments == 3
MaxSlugFiles == 2
MaxPosts == 11

(***************************************************************************)
(* JavaScript values and strings.                                          *)
(***************************************************************************)
Undefined == <<"undefined">>
Null == [null |-> TRUE]

\* F(v), with v evaluated once: const x = v; return F(x).
Bind(v, F(_)) == CHOOSE r \in {F(x) : x \in {v}} : TRUE

Returned(v) == [ok |-> TRUE, val |-> v]
Thrown(e) == [ok |-> FALSE, val |-> e]

\* The grave accent, which a TLA+ string cannot hold.
Backtick == "GRAVE"

\* UTF-16 code unit of the characters the model uses.
CharCode(c) ==
  CASE c = "\n" -> 10
    [] c = " " -> 32
    [] c = "\"" -> 34
    [] c = "#" -> 35
    [] c = "(" -> 40
    [] c = ")" -> 41
    [] c = "*" -> 42
    [] c = "-" -> 45
    [] c = "." -> 46
    [] c = "/" -> 47
    [] c = "0" -> 48
    [] c = "1" -> 49
    [] c = "2" -> 50
    [] c = "3" -> 51
    [] c = "4" -> 52
    [] c = "5" -> 53
    [] c = "6" -> 54
    [] c = "7" -> 55
    [] c = "8" -> 56
    [] c = "9" -> 57
    [] c = "<" -> 60
    [] c = "=" -> 61
    [] c = ">" -> 62
    [] c = "A" -> 65
    [] c = "B" -> 66
    [] c = "H" -> 72
    [] c = "T" -> 84
    [] c = "[" -> 91
    [] c = "]" -> 93
    [] c = Backtick -> 96
    [] c = "a" -> 97
    [] c = "b" -> 98
    [] c = "c" -> 99
    [] c = "d" -> 100
    [] c = "e" -> 101
    [] c = "f" -> 102
    [] c = "g" -> 103
    [] c = "h" -> 104
    [] c = "i" -> 105
    [] c = "j" -> 106
    [] c = "k" -> 107
    [] c = "l" -> 108
    [] c = "m" -> 109
    [] c = "n" -> 110
    [] c = "o" -> 111
    [] c = "p" -> 112
    [] c = "q" -> 113
    [] c = "r" -> 114
    [] c = "s" -> 115
    [] c = "t" -> 116
    [] c = "u" -> 117
    [] c = "v" -> 118
    [] c = "w" -> 119
    [] c = "x" -> 120
    [] c = "y" -> 121
    [] c = "z" -> 122

\* The characters \s matches and String.prototype.trim strips.
IsSpace(c) == c \in {" ", "\n", "\t", "\r"}

Min(a, b) == IF a < b THEN a ELSE b
Max(a, b) == IF a < b THEN b ELSE a

\* Array.prototype.slice(from, to): a negative index counts from the end.
Slice(s, from, to) ==
  LET rel(k) == IF k < 0 THEN Max(Len(s) + k, 0) ELSE Min(k, Len(s))
  IN  IF rel(from) >= rel(to) THEN <<>> ELSE SubSeq(s, rel(from) + 1, rel(to))

StartsWith(s, p, at) ==
  /\ at + Len(p) - 1 <= Len(s)
  /\ \A k \in 1..Len(p) : s[at + k - 1] = p[k]

EndsWith(s, p) == Len(p) <= Len(s) /\ StartsWith(s, p, Len(s) - Len(p) + 1)

\* String.prototype.trim
Trim(s) ==
  LET kept == {i \in 1..Len(s) : ~IsSpace(s[i])}
  IN  IF kept = {} THEN <<>>
      ELSE LET first == CHOOSE i \in kept : \A j \in kept : i <= j
               last == CHOOSE i \in kept : \A j \in kept : j <= i
           IN  SubSeq(s, first, last)

\* a < b of JavaScript for operands that are strings or undefined: two strings
\* compare by code units, anything against undefined compares as NaN (false).
JsLess(a, b) ==
  /\ a # Undefined
  /\ b # Undefined
  /\ \E k \in 1..(Len(b)) :
       /\ \A j \in 1..(k - 1) : j <= Len(a) /\ a[j] = b[j]
       /\ \/ k = Len(a) + 1
          \/ k <= Len(a) /\ CharCode(a[k]) < CharCode(b[k])

\* Math.ceil(a / b) for integers a >= 0, b > 0.
Ceil(a, b) == IF a % b = 0 THEN a \div b ELSE (a \div b) + 1

(***************************************************************************)
(* Dates: ISO date strings, new Date(value) and date-fns format.           *)
(***************************************************************************)
Digits == <<"0", "1", "2", "3", "4", "5", "6", "7", "8", "9">>

DigitValue(c) == (CHOOSE i \in 1..Len(Digits) : Digits[i] = c) - 1

IsDigit(c) == \E i \in 1..Len(Digits) : Digits[i] = c

\* Number.prototype.toString of a non-negative integer.
RECURSIVE NumberToString(_)
NumberToString(n) ==
  IF n < 10 THEN <<Digits[n + 1]>>
  ELSE NumberToString(n \div 10) \o <<Digits[(n % 10) + 1]>>

\* The date string "yyyy-mm-dd" as the posts' front matter writes it.
IsoDate(y, m, d) ==
  <<Digits[(y \div 1000) + 1], Digits[((y \div 100) % 10) + 1],
    Digits[((y \div 10) % 10) + 1], Digits[(y % 10) + 1], "-",
    Digits[(m \div 10) + 1], Digits[(m % 10) + 1], "-",
    Digits[(d \div 10) + 1], Digits[(d % 10) + 1]>>

InvalidDate == [valid |-> FALSE, y |-> 0, m |-> 0, d |-> 0]

\* new Date(value): undefined gives an invalid date (time value NaN), a
\* "yyyy-mm-dd" string that date in UTC. Other strings do not occur here.
NewDate(value) ==
  IF value = Undefined THEN InvalidDate
  ELSE IF /\ Len(value) = 10
          /\ \A i \in {1, 2, 3, 4, 6, 7, 9, 10} : IsDigit(value[i])
          /\ value[5] = "-"
          /\ value[8] = "-"
       THEN LET y == 1000 * DigitValue(value[1]) + 100 * DigitValue(value[2])
                       + 10 * DigitValue(value[3]) + DigitValue(value[4])
                m == 10 * DigitValue(value[6]) + DigitValue(value[7])
                d == 10 * DigitValue(value[9]) + DigitValue(value[10])
            IN  IF m \in 1..12 /\ d \in 1..31
                THEN [valid |-> TRUE, y |-> y, m |-> m, d |-> d]
                ELSE InvalidDate
       ELSE InvalidDate

MonthAbbrev ==
  << <<"J", "A", "N">>, <<"F", "E", "B">>, <<"M", "A", "R">>, <<"A", "P", "R">>,
     <<"M", "A", "Y">>, <<"J", "U", "N">>, <<"J", "U", "L">>, <<"A", "U", "G">>,
     <<"S", "E", "P">>, <<"O", "C", "T">>, <<"N", "O", "V">>, <<"D", "E", "C">> >>

\* format(date, 'MMM d, yyyy').toUpperCase() of date-fns: format throws
\* RangeError("Invalid time value") when the date is invalid.
FormatDate(date) ==
  IF ~date.valid THEN Thrown("RangeError")
  ELSE Returned(MonthAbbrev[date.m] \o <<" ">> \o NumberToString(date.d)
                  \o <<",", " ">> \o NumberToString(date.y))

(***************************************************************************)
(* Reading time and excerpt (src/lib/posts.ts).                            *)
(***************************************************************************)
WordsPerMinute == 200

\* Last index of the whitespace run that starts at index from.
SpaceRunEnd(s, from) ==
  CHOOSE j \in from..Len(s) :
    /\ \A k \in from..j : IsSpace(s[k])
    /\ j = Len(s) \/ ~IsSpace(s[j + 1])

Front(q) == SubSeq(q, 1, Len(q) - 1)

\* s.slice(lo - 1, hi).split(/\s+/) for lo <= hi: the pieces between the
\* maximal whitespace runs, an empty piece before a leading and after a
\* trailing run. Computed by halving the range, so that a long body is split
\* in logarithmic depth: a word or a run that spans the middle is rejoined.
RECURSIVE SplitRange(_, _, _)
SplitRange(s, lo, hi) ==
  IF lo = hi THEN IF IsSpace(s[lo]) THEN << <<>>, <<>> >> ELSE << <<s[lo]>> >>
  ELSE LET mid == (lo + hi) \div 2
           L == SplitRange(s, lo, mid)
           R == SplitRange(s, mid + 1, hi)
       IN  IF ~IsSpace(s[mid]) /\ ~IsSpace(s[mid + 1])
           THEN Front(L) \o << L[Len(L)] \o Head(R) >> \o Tail(R)
           ELSE (IF IsSpace(s[mid]) THEN Front(L) ELSE L)
                  \o (IF IsSpace(s[mid + 1]) THEN Tail(R) ELSE R)

\* s.split(/\s+/); the empty string splits into one empty piece.
SplitSpaces(s) == IF s = <<>> THEN << <<>> >> ELSE SplitRange(s, 1, Len(s))

\* calculateReadingTime with Math.floor in the place of Math.ceil.
MutCalculateReadingTime_Floor(content) ==
  Bind(Trim(content), LAMBDA trimmed : Len(SplitSpaces(trimmed)) \div WordsPerMinute)

calculateReadingTime(content) ==
  Bind(Trim(content), LAMBDA trimmed :
    LET words == Len(SplitSpaces(trimmed))
    IN  Ceil(words, WordsPerMinute))

\* Least index >= from at which p occurs in s, 0 if none.
IndexOf(s, p, from) ==
  IF \E j \in from..Len(s) : StartsWith(s, p, j)
  THEN CHOOSE j \in from..Len(s) :
         StartsWith(s, p, j) /\ \A k \in from..(j - 1) : ~StartsWith(s, p, k)
  ELSE 0

\* The characters the regular expression dot does not match.
IsLineTerminator(c) == c \in {"\n", "\r"}

NoLineTerminator(s, from, to) == \A k \in from..to : ~IsLineTerminator(s[k])

ThreeDashes == <<"-", "-", "-">>

\* content.replace(/^---[\s\S]*?---/, '')
RemoveFrontmatter(content) ==
  IF StartsWith(content, ThreeDashes, 1)
  THEN LET close == IndexOf(content, ThreeDashes, Len(ThreeDashes) + 1)
       IN  IF close = 0 THEN content
           ELSE SubSeq(content, close + Len(ThreeDashes), Len(content))
  ELSE content

\* A match of /\n\s*\n/ starts at index i.
IsParagraphBreak(s, i) ==
  /\ s[i] = "\n"
  /\ \E j \in (i + 1)..Len(s) :
       s[j] = "\n" /\ \A k \in (i + 1)..(j - 1) : IsSpace(s[k])

\* s.split(/\n\s*\n/)[0]
FirstParagraph(s) ==
  IF \E i \in 1..Len(s) : IsParagraphBreak(s, i)
  THEN LET i == CHOOSE i \in 1..Len(s) :
                  IsParagraphBreak(s, i)
                  /\ \A k \in 1..(i - 1) : ~IsParagraphBreak(s, k)
       IN  SubSeq(s, 1, i - 1)
  ELSE s

\* Length of the run of character c that starts at index i (0 if s[i] # c).
RECURSIVE RunOf(_, _, _)
RunOf(s, c, i) ==
  IF i > Len(s) \/ s[i] # c THEN 0 ELSE 1 + RunOf(s, c, i + 1)

\* Length of the whitespace run that starts at index i (0 if none).
SpaceRun(s, i) ==
  IF i > Len(s) \/ ~IsSpace(s[i]) THEN 0 ELSE SpaceRunEnd(s, i) - i + 1

\* Length of the match of /#{1,6}\s+/ at index i, 0 if it does not match.
HeaderMatch(s, i) ==
  LET h == RunOf(s, "#", i)
  IN  IF h \in 1..6 /\ SpaceRun(s, i + h) > 0 THEN h + SpaceRun(s, i + h) ELSE 0

\* s.replace(/#{1,6}\s+/g, '') from index i on.
RECURSIVE RemoveHeaders(_, _)
RemoveHeaders(s, i) ==
  IF i > Len(s) THEN <<>>
  ELSE LET m == HeaderMatch(s, i)
       IN  IF m > 0 THEN RemoveHeaders(s, i + m)
           ELSE <<s[i]>> \o RemoveHeaders(s, i + 1)

\* Index of the closing delimiter of /d(.*?)d/ opened at index i, 0 if the
\* expression does not match at i.
PairClose(s, d, i) ==
  IF StartsWith(s, d, i)
     /\ \E j \in (i + Len(d))..Len(s) :
          StartsWith(s, d, j) /\ NoLineTerminator(s, i + Len(d), j - 1)
  THEN CHOOSE j \in (i + Len(d))..Len(s) :
         /\ StartsWith(s, d, j)
         /\ NoLineTerminator(s, i + Len(d), j - 1)
         /\ \A k \in (i + Len(d))..(j - 1) : ~StartsWith(s, d, k)
  ELSE 0

\* s.replace(/d(.*?)d/g, '$1') from index i on, for a literal delimiter d.
RECURSIVE UnwrapPairs(_, _, _)
UnwrapPairs(s, d, i) ==
  IF i > Len(s) THEN <<>>
  ELSE LET j == PairClose(s, d, i)
       IN  IF j > 0
           THEN SubSeq(s, i + Len(d), j - 1) \o UnwrapPairs(s, d, j + Len(d))
           ELSE <<s[i]>> \o UnwrapPairs(s, d, i + 1)

\* /\[(.*?)\]\(.*?\)/ at index i: <<j, k>> with "](" at j and ")" at k, the
\* leftmost choice of each, <<0, 0>> if it does not match.
LinkMatch(s, i) ==
  LET mid(j) == /\ StartsWith(s, <<"]", "(">>, j)
                /\ NoLineTerminator(s, i + 1, j - 1)
                /\ \E k \in (j + 2)..Len(s) :
                     s[k] = ")" /\ NoLineTerminator(s, j + 2, k - 1)
  IN  IF i <= Len(s) /\ s[i] = "[" /\ \E j \in (i + 1)..Len(s) : mid(j)
      THEN LET j == CHOOSE j \in (i + 1)..Len(s) :
                      mid(j) /\ \A x \in (i + 1)..(j - 1) : ~mid(x)
               k == CHOOSE k \in (j + 2)..Len(s) :
                      /\ s[k] = ")"
                      /\ \A x \in (j + 2)..(k - 1) : s[x] # ")"
           IN  <<j, k>>
      ELSE <<0, 0>>

\* s.replace(/\[(.*?)\]\(.*?\)/g, '$1') from index i on.
RECURSIVE UnwrapLinks(_, _)
UnwrapLinks(s, i) ==
  IF i > Len(s) THEN <<>>
  ELSE LET m == LinkMatch(s, i)
       IN  IF m[1] > 0
           THEN SubSeq(s, i + 1, m[1] - 1) \o UnwrapLinks(s, m[2] + 1)
           ELSE <<s[i]>> \o UnwrapLinks(s, i + 1)

\* A variant that leaves the newlines of the paragraph in place.
MutNewlinesToSpaces_Keep(s, i) == SubSeq(s, i, Len(s))

\* s.replace(/\n+/g, ' ') from index i on.
RECURSIVE NewlinesToSpaces(_, _)
NewlinesToSpaces(s, i) ==
  IF i > Len(s) THEN <<>>
  ELSE IF s[i] = "\n" THEN <<" ">> \o NewlinesToSpaces(s, i + RunOf(s, "\n", i))
  ELSE <<s[i]>> \o NewlinesToSpaces(s, i + 1)

generateExcerpt(content) ==
  Bind(Trim(RemoveFrontmatter(content)), LAMBDA contentWithoutFrontmatter :
  Bind(FirstParagraph(contentWithoutFrontmatter), LAMBDA p0 :
  Bind(RemoveHeaders(p0, 1), LAMBDA p1 :
  Bind(UnwrapPairs(p1, <<"*", "*">>, 1), LAMBDA p2 :
  Bind(UnwrapPairs(p2, <<"*">>, 1), LAMBDA p3 :
  Bind(UnwrapLinks(p3, 1), LAMBDA p4 :
  Bind(UnwrapPairs(p4, <<Backtick>>, 1), LAMBDA p5 :
  Bind(NewlinesToSpaces(p5, 1), LAMBDA p6 :
    Trim(p6)))))))))

(***************************************************************************)
(* The posts directory and gray-matter.                                    *)
(*                                                                         *)
(* A file is [name, readable, fm, body]: fm is its front matter,           *)
(* [kind, title, date, excerpt] with kind "yaml" (a well-formed block),    *)
(* "none" (no delimiter block) or "bad" (a block that is not valid YAML),  *)
(* and body the text after the block.                                      *)
(***************************************************************************)
MdSuffix == <<".", "m", "d">>
TxtSuffix == <<".", "t", "x", "t">>

FrontMatter(kind, title, date, excerpt) ==
  [kind |-> kind, title |-> title, date |-> date, excerpt |-> excerpt,
   slug |-> Undefined]

\* The front matter fm with a slug key added.
SlugKey(fm, slug) == [fm EXCEPT !.slug = slug]

NoFrontMatter == FrontMatter("none", Undefined, Undefined, Undefined)
BadFrontMatter == FrontMatter("bad", Undefined, Undefined, Undefined)

\* A file is named by its path relative to postsDirectory: a file of the
\* directory by its bare name, a file of a subdirectory or of a directory
\* above by a path with separators. No subdirectory has a name ending in .md.
IsBareName(name) == \A i \in 1..Len(name) : name[i] # "/"

\* The segments of a path from index from on.
RECURSIVE Segments(_, _)
Segments(p, from) ==
  LET sep == IndexOf(p, <<"/">>, from)
  IN  IF sep = 0 THEN <<SubSeq(p, from, Len(p))>>
      ELSE <<SubSeq(p, from, sep - 1)>> \o Segments(p, sep + 1)

\* path.normalize on the segments still to read, kept the segments so far:
\* an empty segment and "." are dropped, ".." drops the segment before it.
RECURSIVE Normalized(_, _)
Normalized(segments, kept) ==
  IF Len(segments) = 0 THEN kept
  ELSE IF Head(segments) \in {<<>>, <<".">>} THEN Normalized(Tail(segments), kept)
  ELSE IF Head(segments) = <<".", ".">> /\ Len(kept) > 0
          /\ kept[Len(kept)] # <<".", ".">>
  THEN Normalized(Tail(segments), SubSeq(kept, 1, Len(kept) - 1))
  ELSE Normalized(Tail(segments), Append(kept, Head(segments)))

RECURSIVE JoinSegments(_)
JoinSegments(segments) ==
  IF Len(segments) = 0 THEN <<>>
  ELSE IF Len(segments) = 1 THEN segments[1]
  ELSE segments[1] \o <<"/">> \o JoinSegments(Tail(segments))

\* path.join(postsDirectory, name), relative to postsDirectory.
PathJoin(name) ==
  IF IsBareName(name) /\ name \notin {<<".">>, <<".", ".">>} THEN name
  ELSE JoinSegments(Normalized(Segments(name, 1), <<>>))

\* fs.readdirSync(postsDirectory): the names of the files of the directory.
readdirSync(d) ==
  Bind(SelectSeq(d, LAMBDA f : IsBareName(f.name)), LAMBDA files :
    [i \in 1..Len(files) |-> files[i].name])

\* fs.readFileSync(fullPath, 'utf8'): throws when no such file exists or the
\* file cannot be read.
readFileSync(d, name) ==
  Bind(name, LAMBDA fullPath :
    IF \E i \in 1..Len(d) : d[i].name = fullPath
    THEN LET f == d[CHOOSE i \in 1..Len(d) : d[i].name = fullPath]
         IN  IF f.readable THEN Returned(f) ELSE Thrown("EACCES")
    ELSE Thrown("ENOENT"))

\* matter(fileContents) of gray-matter: without a delimiter block the data is
\* empty and the content is the whole text; a block that is not valid YAML
\* makes the YAML engine throw, and gray-matter does not catch it.
matter(fileContents) ==
  IF fileContents.fm.kind = "bad" THEN Thrown("YAMLException")
  ELSE Returned([data |-> [title |-> fileContents.fm.title,
                           date |-> fileContents.fm.date,
                           excerpt |-> fileContents.fm.excerpt,
                           slug |-> fileContents.fm.slug],
                 content |-> fileContents.body])

\* ToBoolean of a string or undefined.
Truthy(v) == v # Undefined /\ v # <<>>

\* The object literal with an excerpt derived from the title, not from the
\* content.
MutMakePost_ExcerptOfTitle(slug, data, content) ==
  [slug |-> slug,
   title |-> data.title,
   date |-> data.date,
   excerpt |-> IF Truthy(data.excerpt) THEN data.excerpt
               ELSE generateExcerpt(data.title),
   content |-> content,
   readingTime |-> calculateReadingTime(content)]

\* The object literal both getAllPosts and getPostBySlug build.
MakePost(slug, data, content) ==
  [slug |-> slug,
   title |-> data.title,
   date |-> data.date,
   excerpt |-> IF Truthy(data.excerpt) THEN data.excerpt
               ELSE generateExcerpt(content),
   content |-> content,
   readingTime |-> calculateReadingTime(content)]

\* The map callback that takes the slug key of the front matter when there
\* is one.
MutReadPost_SlugKey(d, fileName) ==
  LET slug == SubSeq(fileName, 1, Len(fileName) - Len(MdSuffix))
  IN  Bind(readFileSync(d, PathJoin(fileName)), LAMBDA fileContents :
        IF ~fileContents.ok THEN fileContents
        ELSE Bind(matter(fileContents.val), LAMBDA m :
               IF ~m.ok THEN m
               ELSE Returned(MakePost(IF Truthy(m.val.data.slug)
                                      THEN m.val.data.slug ELSE slug,
                                      m.val.data, m.val.content))))

\* The body of the map callback of getAllPosts for one file name.
ReadPost(d, fileName) ==
  LET slug == SubSeq(fileName, 1, Len(fileName) - Len(MdSuffix))
  IN  Bind(readFileSync(d, PathJoin(fileName)), LAMBDA fileContents :
        IF ~fileContents.ok THEN fileContents
        ELSE Bind(matter(fileContents.val), LAMBDA m :
               IF ~m.ok THEN m
               ELSE Returned(MakePost(slug, m.val.data, m.val.content))))

(***************************************************************************)
(* Array.prototype.sort as V8 implements it (TimSort) for an array shorter *)
(* than 64 elements: the first run is counted, reversed when descending,   *)
(* and the rest is inserted by binary insertion. Indices are 0-based as in *)
(* V8; arr[k + 1] is element k.                                            *)
(***************************************************************************)
\* The comparator of getAllPosts.
CompareByDate(a, b) == IF JsLess(a.date, b.date) THEN 1 ELSE -1

RECURSIVE CountRun(_, _, _, _)
CountRun(arr, isDescending, idx, runLength) ==
  IF idx >= Len(arr) THEN runLength
  ELSE LET order == CompareByDate(arr[idx + 1], arr[idx])
       IN  IF (isDescending /\ order >= 0) \/ (~isDescending /\ order < 0)
           THEN runLength
           ELSE CountRun(arr, isDescending, idx + 1, runLength + 1)

Reverse(q) == [i \in 1..Len(q) |-> q[Len(q) + 1 - i]]

\* CountAndMakeRun(0, length): <<array, runLength>>
CountAndMakeRun(arr) ==
  IF Len(arr) = 1 THEN <<arr, 1>>
  ELSE LET isDescending == CompareByDate(arr[2], arr[1]) < 0
           runLength == CountRun(arr, isDescending, 2, 2)
       IN  IF isDescending
           THEN <<Reverse(SubSeq(arr, 1, runLength))
                    \o SubSeq(arr, runLength + 1, Len(arr)), runLength>>
           ELSE <<arr, runLength>>

RECURSIVE BinarySearch(_, _, _, _)
BinarySearch(arr, pivot, left, right) ==
  IF left >= right THEN left
  ELSE LET mid == left + ((right - left) \div 2)
       IN  IF CompareByDate(pivot, arr[mid + 1]) < 0
           THEN BinarySearch(arr, pivot, left, mid)
           ELSE BinarySearch(arr, pivot, mid + 1, right)

RECURSIVE BinaryInsertionSort(_, _)
BinaryInsertionSort(arr, start) ==
  IF start >= Len(arr) THEN arr
  ELSE LET pivot == arr[start + 1]
       IN  Bind(BinarySearch(arr, pivot, 0, start), LAMBDA left :
             Bind(SubSeq(arr, 1, left) \o <<pivot>>
                    \o SubSeq(arr, left + 1, start)
                    \o SubSeq(arr, start + 2, Len(arr)), LAMBDA moved :
               BinaryInsertionSort(moved, start + 1)))

\* allPostsData.sort((a, b) => (a.date < b.date ? 1 : -1))
SortByDate(arr) ==
  IF Len(arr) < 2 THEN arr
  ELSE Bind(CountAndMakeRun(arr), LAMBDA run :
         BinaryInsertionSort(run[1], run[2]))

(***************************************************************************)
(* The content repository accessor (src/lib/posts.ts).                     *)
(***************************************************************************)
getAllPosts(d) ==
  Bind(readdirSync(d), LAMBDA fileNames :
  Bind(SelectSeq(fileNames, LAMBDA fileName : EndsWith(fileName, MdSuffix)),
       LAMBDA mdNames :
      Bind([i \in 1..Len(mdNames) |-> ReadPost(d, mdNames[i])], LAMBDA read :
        LET failed == {i \in 1..Len(read) : ~read[i].ok}
        IN  IF failed # {}
            THEN read[CHOOSE i \in failed : \A j \in failed : i <= j]
            ELSE Bind([i \in 1..Len(read) |-> read[i].val], LAMBDA allPostsData :
                   Returned(SortByDate(allPostsData))))))

\* getPostsPage with the slice starting at page * postsPerPage.
MutGetPostsPage_StartAtPage(d, page, postsPerPage) ==
  Bind(getAllPosts(d), LAMBDA all :
    IF ~all.ok THEN all
    ELSE LET allPosts == all.val
             startIndex == page * postsPerPage
             endIndex == startIndex + postsPerPage
         IN  Returned([posts |-> Slice(allPosts, startIndex, endIndex),
                       totalPosts |-> Len(allPosts),
                       totalPages |-> Ceil(Len(allPosts), postsPerPage),
                       currentPage |-> page,
                       hasNextPage |-> endIndex < Len(allPosts),
                       hasPrevPage |-> page > 1]))

\* getPostsPage with Math.floor in the place of Math.ceil.
MutGetPostsPage_FloorPages(d, page, postsPerPage) ==
  Bind(getAllPosts(d), LAMBDA all :
    IF ~all.ok THEN all
    ELSE LET allPosts == all.val
             startIndex == (page - 1) * postsPerPage
             endIndex == startIndex + postsPerPage
         IN  Returned([posts |-> Slice(allPosts, startIndex, endIndex),
                       totalPosts |-> Len(allPosts),
                       totalPages |-> Len(allPosts) \div postsPerPage,
                       currentPage |-> page,
                       hasNextPage |-> endIndex < Len(allPosts),
                       hasPrevPage |-> page > 1]))

\* getPostsPage that shows the last page for a page number past it.
MutGetPostsPage_ClampPage(d, page, postsPerPage) ==
  Bind(getAllPosts(d), LAMBDA all :
    IF ~all.ok THEN all
    ELSE LET allPosts == all.val
             shown == Min(page, Ceil(Len(allPosts), postsPerPage))
             startIndex == (shown - 1) * postsPerPage
             endIndex == startIndex + postsPerPage
         IN  Returned([posts |-> Slice(allPosts, startIndex, endIndex),
                       totalPosts |-> Len(allPosts),
                       totalPages |-> Ceil(Len(allPosts), postsPerPage),
                       currentPage |-> page,
                       hasNextPage |-> endIndex < Len(allPosts),
                       hasPrevPage |-> page > 1]))

\* getPostsPage whose hasNextPage also holds on a last page that is full.
MutGetPostsPage_NextOnFullPage(d, page, postsPerPage) ==
  Bind(getAllPosts(d), LAMBDA all :
    IF ~all.ok THEN all
    ELSE LET allPosts == all.val
             startIndex == (page - 1) * postsPerPage
             endIndex == startIndex + postsPerPage
         IN  Returned([posts |-> Slice(allPosts, startIndex, endIndex),
                       totalPosts |-> Len(allPosts),
                       totalPages |-> Ceil(Len(allPosts), postsPerPage),
                       currentPage |-> page,
                       hasNextPage |-> endIndex <= Len(allPosts),
                       hasPrevPage |-> page > 1]))

getPostsPage(d, page, postsPerPage) ==
  Bind(getAllPosts(d), LAMBDA all :
    IF ~all.ok THEN all
    ELSE LET allPosts == all.val
             startIndex == (page - 1) * postsPerPage
             endIndex == startIndex + postsPerPage
         IN  Returned([posts |-> Slice(allPosts, startIndex, endIndex),
                       totalPosts |-> Len(allPosts),
                       totalPages |-> Ceil(Len(allPosts), postsPerPage),
                       currentPage |-> page,
                       hasNextPage |-> endIndex < Len(allPosts),
                       hasPrevPage |-> page > 1]))

\* getPostBySlug without its try/catch.
MutGetPostBySlug_NoCatch(d, slug) ==
  Bind(readFileSync(d, PathJoin(slug \o MdSuffix)), LAMBDA fileContents :
    IF ~fileContents.ok THEN fileContents
    ELSE Bind(matter(fileContents.val), LAMBDA m :
           IF ~m.ok THEN m
           ELSE Returned(MakePost(slug, m.val.data, m.val.content))))

getPostBySlug(d, slug) ==
  Bind(readFileSync(d, PathJoin(slug \o MdSuffix)), LAMBDA fileContents :
    IF ~fileContents.ok THEN Returned(Null)
    ELSE Bind(matter(fileContents.val), LAMBDA m :
           IF ~m.ok THEN Returned(Null)
           ELSE Returned(MakePost(slug, m.val.data, m.val.content))))

(***************************************************************************)
(* Base64 and UTF-8 as Buffer.from(...).toString(...) compute them. The    *)
(* model's characters are ASCII, so each is one UTF-8 byte.                *)
(***************************************************************************)
Base64Chars ==
  <<"A", "B", "C", "D", "E", "F", "G", "H", "I", "J", "K", "L", "M", "N", "O", "P",
    "Q", "R", "S", "T", "U", "V", "W", "X", "Y", "Z", "a", "b", "c", "d", "e", "f",
    "g", "h", "i", "j", "k", "l", "m", "n", "o", "p", "q", "r", "s", "t", "u", "v",
    "w", "x", "y", "z", "0", "1", "2", "3", "4", "5", "6", "7", "8", "9", "+", "/">>

\* The characters a diagram definition is written in here.
ChartChars ==
  {"A", "B", "1", "-", ">", " ", "\n", Backtick,
   "a", "d", "e", "i", "j", "m", "r", "s", "x", "y", "z"}

\* U+FFFD, which decoding puts in the place of bytes that are no character.
ReplacementChar == "?"

Utf8Encode(str) == [i \in 1..Len(str) |-> CharCode(str[i])]

Utf8Decode(bytes) ==
  [i \in 1..Len(bytes) |->
     IF \E c \in ChartChars : CharCode(c) = bytes[i]
     THEN CHOOSE c \in ChartChars : CharCode(c) = bytes[i]
     ELSE ReplacementChar]

\* Buffer.from(bytes).toString('base64')
RECURSIVE Base64Encode(_)
Base64Encode(bytes) ==
  IF Len(bytes) = 0 THEN <<>>
  ELSE IF Len(bytes) = 1
  THEN <<Base64Chars[(bytes[1] \div 4) + 1],
         Base64Chars[((bytes[1] % 4) * 16) + 1], "=", "=">>
  ELSE IF Len(bytes) = 2
  THEN <<Base64Chars[(bytes[1] \div 4) + 1],
         Base64Chars[((bytes[1] % 4) * 16) + (bytes[2] \div 16) + 1],
         Base64Chars[((bytes[2] % 16) * 4) + 1], "=">>
  ELSE <<Base64Chars[(bytes[1] \div 4) + 1],
         Base64Chars[((bytes[1] % 4) * 16) + (bytes[2] \div 16) + 1],
         Base64Chars[((bytes[2] % 16) * 4) + (bytes[3] \div 64) + 1],
         Base64Chars[(bytes[3] % 64) + 1]>>
         \o Base64Encode(SubSeq(bytes, 4, Len(bytes)))

Base64Value(c) == (CHOOSE i \in 1..Len(Base64Chars) : Base64Chars[i] = c) - 1

\* The bytes of a sequence of 6-bit values.
RECURSIVE SextetsToBytes(_)
SextetsToBytes(v) ==
  IF Len(v) < 2 THEN <<>>
  ELSE IF Len(v) = 2 THEN <<(v[1] * 4) + (v[2] \div 16)>>
  ELSE IF Len(v) = 3
  THEN <<(v[1] * 4) + (v[2] \div 16), ((v[2] % 16) * 16) + (v[3] \div 4)>>
  ELSE <<(v[1] * 4) + (v[2] \div 16), ((v[2] % 16) * 16) + (v[3] \div 4),
         ((v[3] % 4) * 64) + v[4]>>
         \o SextetsToBytes(SubSeq(v, 5, Len(v)))

\* Buffer.from(encoded, 'base64'): decoding stops at the padding.
Base64Decode(encoded) ==
  LET pad == IndexOf(encoded, <<"=">>, 1)
      data == IF pad = 0 THEN encoded ELSE SubSeq(encoded, 1, pad - 1)
  IN  SextetsToBytes([i \in 1..Len(data) |-> Base64Value(data[i])])

(***************************************************************************)
(* The Markdown pipeline (src/lib/markdown.ts).                            *)
(***************************************************************************)
FenceOpen ==
  <<Backtick, Backtick, Backtick, "m", "e", "r", "m", "a", "i", "d", "\n">>
FenceClose == <<"\n", Backtick, Backtick, Backtick>>

PlaceholderOpen ==
  <<"<", "d", "i", "v", " ", "d", "a", "t", "a", "-", "m", "e", "r", "m", "a",
    "i", "d", "-", "c", "h", "a", "r", "t", "=", "\"">>
PlaceholderClose == <<"\"", ">", "<", "/", "d", "i", "v", ">">>

\* The replacement callback without chart.trim().
MutEncodeChart_NoTrim(chart) ==
  PlaceholderOpen \o Base64Encode(Utf8Encode(chart)) \o PlaceholderClose

\* The replacement callback of markdownToHtml.
EncodeChart(chart) ==
  LET encodedChart == Base64Encode(Utf8Encode(Trim(chart)))
  IN  PlaceholderOpen \o encodedChart \o PlaceholderClose

\* The leftmost match of /```mermaid\n([\s\S]*?)\n```/ at or after index from:
\* <<start, close>> with the opening fence at start and the closing "\n```" at
\* close, <<0, 0>> if there is none.
FenceMatch(s, from) ==
  LET closes(i) == IndexOf(s, FenceClose, i + Len(FenceOpen))
      ok(i) == StartsWith(s, FenceOpen, i) /\ closes(i) > 0
  IN  IF \E i \in from..Len(s) : ok(i)
      THEN LET i == CHOOSE i \in from..Len(s) :
                      ok(i) /\ \A k \in from..(i - 1) : ~ok(k)
           IN  <<i, closes(i)>>
      ELSE <<0, 0>>

\* markdown.replace(/```mermaid\n([\s\S]*?)\n```/g, callback) from index from on.
RECURSIVE ReplaceFences(_, _)
ReplaceFences(s, from) ==
  LET m == FenceMatch(s, from)
  IN  IF m[1] = 0 THEN SubSeq(s, from, Len(s))
      ELSE SubSeq(s, from, m[1] - 1)
             \o EncodeChart(SubSeq(s, m[1] + Len(FenceOpen), m[2] - 1))
             \o ReplaceFences(s, m[2] + Len(FenceClose))

\* The lines of s from index from on.
RECURSIVE SplitLines(_, _)
SplitLines(s, from) ==
  LET nl == IndexOf(s, <<"\n">>, from)
  IN  IF nl = 0 THEN <<SubSeq(s, from, Len(s))>>
      ELSE <<SubSeq(s, from, nl - 1)>> \o SplitLines(s, nl + 1)

IsBlank(line) == \A i \in 1..Len(line) : IsSpace(line[i])

\* A line that opens a CommonMark HTML block: a block-level tag, here <div,
\* indented by at most three spaces.
IsHtmlStart(line) ==
  \E n \in 0..3 :
    /\ \A i \in 1..n : i <= Len(line) /\ line[i] = " "
    /\ StartsWith(line, <<"<", "d", "i", "v">>, n + 1)

RECURSIVE JoinLines(_)
JoinLines(lines) ==
  IF Len(lines) = 0 THEN <<>>
  ELSE IF Len(lines) = 1 THEN lines[1]
  ELSE lines[1] \o <<"\n">> \o JoinLines(Tail(lines))

\* Number of leading spaces of a line.
Indent(line) == RunOf(line, " ", 1)

\* The first word of an info string.
FirstWord(info) ==
  LET sp == IndexOf(info, <<" ">>, 1)
  IN  IF sp = 0 THEN info ELSE SubSeq(info, 1, sp - 1)

NoFence == [ticks |-> 0, indent |-> 0, lang |-> <<>>]

\* The CommonMark code fence a line opens: at most three spaces, at least
\* three backticks, an info string without backticks whose first word is the
\* language. NoFence if the line opens none.
FenceStart(line) ==
  LET indent == Indent(line)
      ticks == RunOf(line, Backtick, indent + 1)
      info == Trim(SubSeq(line, indent + ticks + 1, Len(line)))
  IN  IF indent <= 3 /\ ticks >= 3 /\ \A i \in 1..Len(info) : info[i] # Backtick
      THEN [ticks |-> ticks, indent |-> indent, lang |-> FirstWord(info)]
      ELSE NoFence

\* A line that closes the fence: at most three spaces, at least as many
\* backticks as the opening fence, and nothing but spaces after them.
IsFenceEnd(line, fence) ==
  LET indent == Indent(line)
      ticks == RunOf(line, Backtick, indent + 1)
  IN  /\ indent <= 3
      /\ ticks >= fence.ticks
      /\ IsBlank(SubSeq(line, indent + ticks + 1, Len(line)))

NoBlock == [kind |-> "none", fence |-> NoFence, lines |-> <<>>]

\* The blocks of a document, line by line, each [kind, fence, lines]: a fenced
\* code block runs to its closing fence or to the end of the document; a blank
\* line ends an open paragraph or HTML block; a fence or an HTML block start
\* ends an open paragraph.
RECURSIVE Blocks(_, _, _, _)
Blocks(lines, i, open, acc) ==
  LET closed == IF open.kind = "none" THEN acc ELSE Append(acc, open)
      added == [open EXCEPT !.lines = Append(@, lines[i])]
  IN  IF i > Len(lines) THEN closed
      ELSE IF open.kind = "code"
      THEN IF IsFenceEnd(lines[i], open.fence)
           THEN Blocks(lines, i + 1, NoBlock, closed)
           ELSE Blocks(lines, i + 1, added, acc)
      ELSE IF IsBlank(lines[i]) THEN Blocks(lines, i + 1, NoBlock, closed)
      ELSE IF open.kind = "html" THEN Blocks(lines, i + 1, added, acc)
      ELSE IF FenceStart(lines[i]).ticks > 0
      THEN Blocks(lines, i + 1,
                  [kind |-> "code", fence |-> FenceStart(lines[i]), lines |-> <<>>],
                  closed)
      ELSE IF IsHtmlStart(lines[i])
      THEN Blocks(lines, i + 1,
                  [kind |-> "html", fence |-> NoFence, lines |-> <<lines[i]>>],
                  closed)
      ELSE IF open.kind = "para" THEN Blocks(lines, i + 1, added, acc)
      ELSE Blocks(lines, i + 1,
                  [kind |-> "para", fence |-> NoFence, lines |-> <<lines[i]>>],
                  acc)

\* remark().parse(markdown): the blocks of the document. A final line feed
\* ends the last line, it does not start another.
Parse(markdown) ==
  Bind(SplitLines(markdown, 1), LAMBDA split :
    LET lines == IF split[Len(split)] = <<>> THEN Front(split) ELSE split
    IN  Blocks(lines, 1, NoBlock, <<>>))

\* A content line of a fenced code block, without the indentation of its fence.
Dedent(line, indent) ==
  SubSeq(line, Min(Indent(line), indent) + 1, Len(line))

\* The value of a code node: its content lines.
CodeValue(block) ==
  JoinLines([i \in 1..Len(block.lines) |->
               Dedent(block.lines[i], block.fence.indent)])

\* rehype-stringify writes < and & of a text as character references.
RECURSIVE Escape(_)
Escape(s) ==
  IF Len(s) = 0 THEN <<>>
  ELSE (IF s[1] = "<" THEN <<"&", "#", "x", "3", "C", ";">>
        ELSE IF s[1] = "&" THEN <<"&", "#", "x", "2", "6", ";">>
        ELSE <<s[1]>>) \o Escape(Tail(s))

\* The languages registered with the highlighter that the model writes code in.
RegisteredLanguages == {<<"j", "s">>}

NumberSpanOpen ==
  <<"<", "s", "p", "a", "n", " ", "c", "l", "a", "s", "s", "=", "\"",
    "h", "l", "j", "s", "-", "n", "u", "m", "b", "e", "r", "\"", ">">>
SpanClose == <<"<", "/", "s", "p", "a", "n", ">">>

\* The tokens of a text of a registered language from index i on: a number
\* literal is wrapped in a span, everything else is left as text.
RECURSIVE Tokens(_, _)
Tokens(t, i) ==
  IF i > Len(t) THEN <<>>
  ELSE IF IsDigit(t[i])
  THEN LET j == CHOOSE j \in i..Len(t) :
                  /\ \A k \in i..j : IsDigit(t[k])
                  /\ (j = Len(t) \/ ~IsDigit(t[j + 1]))
       IN  NumberSpanOpen \o SubSeq(t, i, j) \o SpanClose \o Tokens(t, j + 1)
  ELSE Escape(<<t[i]>>) \o Tokens(t, i + 1)

\* lowlight.highlight(lang, text): throws for a language that is not registered.
Highlight(lang, t) ==
  IF lang \in RegisteredLanguages THEN Returned(Tokens(t, 1))
  ELSE Thrown("Unknown language")

HljsClass(lang) ==
  <<" ", "c", "l", "a", "s", "s", "=", "\"", "h", "l", "j", "s", " ",
    "l", "a", "n", "g", "u", "a", "g", "e", "-">> \o lang \o <<"\"">>

\* The rehype-highlight visitor that lets the "Unknown language" error through.
MutHighlightCode_Rethrow(lang, t) ==
  IF lang = <<>> THEN Returned([class |-> <<>>, children |-> Escape(t)])
  ELSE Bind(Highlight(lang, t), LAMBDA result :
         IF ~result.ok THEN result
         ELSE Returned([class |-> HljsClass(lang),
                        children |-> IF result.val = <<>> THEN Escape(t)
                                     ELSE result.val]))

\* The rehype-highlight visitor for one code element: no language, no
\* highlighting; a language that is not registered, a message and the element
\* left as text; otherwise the tokens of the highlighter.
HighlightCode(lang, t) ==
  IF lang = <<>> THEN Returned([class |-> <<>>, children |-> Escape(t)])
  ELSE Bind(Highlight(lang, t), LAMBDA result :
         IF ~result.ok
         THEN Returned([class |-> HljsClass(lang), children |-> Escape(t)])
         ELSE Returned([class |-> HljsClass(lang),
                        children |-> IF result.val = <<>> THEN Escape(t)
                                     ELSE result.val]))

PreOpen == <<"<", "p", "r", "e", ">">>
CodeClose == <<"<", "/", "c", "o", "d", "e", ">", "<", "/", "p", "r", "e", ">">>

\* <pre><code class=...>children</code></pre>
CodeHtml(code) ==
  PreOpen \o <<"<", "c", "o", "d", "e">> \o code.class \o <<">">>
    \o code.children \o CodeClose

\* The text of a code element: the value and a final line feed, nothing for an
\* empty value.
CodeText(block) ==
  IF CodeValue(block) = <<>> THEN <<>> ELSE CodeValue(block) \o <<"\n">>

\* The HTML of one block: an HTML block is passed through as it stands
\* (allowDangerousHtml), a paragraph is wrapped in <p>, a fenced code block
\* goes through the highlighter.
BlockHtml(block) ==
  IF block.kind = "html" THEN Returned(JoinLines(block.lines))
  ELSE IF block.kind = "code"
  THEN Bind(HighlightCode(block.fence.lang, CodeText(block)), LAMBDA code :
         IF ~code.ok THEN code ELSE Returned(CodeHtml(code.val)))
  ELSE Returned(<<"<", "p", ">">>
         \o JoinLines([i \in 1..Len(block.lines) |-> Trim(block.lines[i])])
         \o <<"<", "/", "p", ">">>)

\* remark().use(remarkRehype).use(rehypeHighlight).use(rehypeStringify)
\* .process(markdown) for a document of paragraphs of plain words, HTML blocks
\* and fenced code blocks: the blocks' HTML, one per line; the first error of
\* a plugin rejects.
Remark(markdown) ==
  Bind(Parse(markdown), LAMBDA blocks :
  Bind([i \in 1..Len(blocks) |-> BlockHtml(blocks[i])], LAMBDA htmls :
    LET failed == {i \in 1..Len(htmls) : ~htmls[i].ok}
    IN  IF failed # {} THEN htmls[CHOOSE i \in failed : \A j \in failed : i <= j]
        ELSE Returned(JoinLines([i \in 1..Len(htmls) |-> htmls[i].val]))))

\* The promise of markdownToHtml, settled: Returned(html) or Thrown(error).
markdownToHtml(markdown) ==
  Bind(ReplaceFences(markdown, 1), LAMBDA processedMarkdown :
    Remark(processedMarkdown))

(***************************************************************************)
(* The components (src/components/BlogPost.tsx, PostCard.tsx) and pages.   *)
(***************************************************************************)
\* The leftmost match of /<div data-mermaid-chart="[^"]*"><\/div>/ at or after
\* index from: <<start, quote>> with the closing quote at quote, <<0, 0>> if none.
PlaceholderMatch(s, from) ==
  LET quote(i) == IndexOf(s, <<"\"">>, i + Len(PlaceholderOpen))
      ok(i) == /\ StartsWith(s, PlaceholderOpen, i)
               /\ quote(i) > 0
               /\ StartsWith(s, PlaceholderClose, quote(i))
  IN  IF \E i \in from..Len(s) : ok(i)
      THEN LET i == CHOOSE i \in from..Len(s) :
                      ok(i) /\ \A k \in from..(i - 1) : ~ok(k)
           IN  <<i, quote(i)>>
      ELSE <<0, 0>>

\* htmlContent.split(/(<div data-mermaid-chart="[^"]*"><\/div>)/) from index
\* from on: the text between the matches and, for the capture group, the matches.
RECURSIVE SplitPlaceholders(_, _)
SplitPlaceholders(s, from) ==
  LET m == PlaceholderMatch(s, from)
  IN  IF m[1] = 0 THEN <<SubSeq(s, from, Len(s))>>
      ELSE <<SubSeq(s, from, m[1] - 1),
             SubSeq(s, m[1], m[2] + Len(PlaceholderClose) - 1)>>
             \o SplitPlaceholders(s, m[2] + Len(PlaceholderClose))

\* The map callback of renderContentWithMermaid for one part.
RenderPart(part) ==
  LET quote == IndexOf(part, <<"\"">>, Len(PlaceholderOpen) + 1)
      mermaidMatch == /\ StartsWith(part, PlaceholderOpen, 1)
                      /\ quote > 0
                      /\ StartsWith(part, <<"\"", ">">>, quote)
  IN  IF mermaidMatch
      THEN LET encodedChart == SubSeq(part, Len(PlaceholderOpen) + 1, quote - 1)
           IN  [component |-> "MermaidDiagram",
                chart |-> Utf8Decode(Base64Decode(encodedChart))]
      ELSE [component |-> "div", html |-> part]

renderContentWithMermaid(htmlContent) ==
  Bind(SplitPlaceholders(htmlContent, 1), LAMBDA parts :
    [i \in 1..Len(parts) |-> RenderPart(parts[i])])

ExcerptLimit == 150

\* PostCard that shortens an excerpt of exactly ExcerptLimit characters too.
MutPostCard_LimitInclusive(post) ==
  Bind(FormatDate(NewDate(post.date)), LAMBDA formattedDate :
      IF ~formattedDate.ok THEN formattedDate
      ELSE Returned([time |-> formattedDate.val,
                     readingTime |-> post.readingTime,
                     href |-> <<"/">> \o post.slug,
                     title |-> post.title,
                     paragraph |-> Truthy(post.excerpt),
                     excerpt |->
                       IF ~Truthy(post.excerpt) THEN <<>>
                       ELSE IF Len(post.excerpt) >= ExcerptLimit
                       THEN SubSeq(post.excerpt, 1, ExcerptLimit) \o <<".", ".", ".">>
                       ELSE post.excerpt]))

\* paragraph: the <p> of the excerpt is rendered; excerpt: its text.
PostCard(post) ==
  Bind(FormatDate(NewDate(post.date)), LAMBDA formattedDate :
      IF ~formattedDate.ok THEN formattedDate
      ELSE Returned([time |-> formattedDate.val,
                     readingTime |-> post.readingTime,
                     href |-> <<"/">> \o post.slug,
                     title |-> post.title,
                     paragraph |-> Truthy(post.excerpt),
                     excerpt |->
                       IF ~Truthy(post.excerpt) THEN <<>>
                       ELSE IF Len(post.excerpt) > ExcerptLimit
                       THEN SubSeq(post.excerpt, 1, ExcerptLimit) \o <<".", ".", ".">>
                       ELSE post.excerpt]))

BlogPost(post) ==
  Bind(markdownToHtml(post.content), LAMBDA htmlContent :
  Bind(FormatDate(NewDate(post.date)), LAMBDA formattedDate :
    IF ~htmlContent.ok THEN htmlContent
    ELSE IF ~formattedDate.ok THEN formattedDate
    ELSE Returned([view |-> "post",
                   time |-> formattedDate.val,
                   readingTime |-> post.readingTime,
                   title |-> post.title,
                   prose |-> renderContentWithMermaid(htmlContent.val)])))

\* What notFound() makes of a page: the 404 view.
NotFoundView == [view |-> "notFound"]

\* app/[slug]/page.tsx
PostPage(d, slug) ==
  Bind(getPostBySlug(d, slug).val, LAMBDA post :
    IF post = Null THEN Returned(NotFoundView) ELSE BlogPost(post))

PostsPerPage == 5

\* The PostCard of every post of a listing; the first that throws ends it.
PostCards(posts) ==
  Bind([i \in 1..Len(posts) |-> PostCard(posts[i])], LAMBDA cards :
    LET failed == {i \in 1..Len(cards) : ~cards[i].ok}
    IN  IF failed # {} THEN cards[CHOOSE i \in failed : \A j \in failed : i <= j]
        ELSE Returned([i \in 1..Len(cards) |-> cards[i].val]))

\* parseInt(string, 10): leading whitespace is skipped, a sign is read, then
\* the digits up to the first character that is none; NaN without a digit.
NaN == [nan |-> TRUE, value |-> 0]

RECURSIVE ParseDigits(_, _, _)
ParseDigits(s, from, acc) ==
  IF from > Len(s) \/ ~IsDigit(s[from]) THEN acc
  ELSE ParseDigits(s, from + 1, (acc * 10) + DigitValue(s[from]))

parseInt(string) ==
  LET start == 1 + SpaceRun(string, 1)
      signed == start <= Len(string) /\ string[start] \in {"-", "+"}
      first == IF signed THEN start + 1 ELSE start
  IN  IF first > Len(string) \/ ~IsDigit(string[first]) THEN NaN
      ELSE [nan |-> FALSE,
            value |-> IF signed /\ string[start] = "-"
                      THEN 0 - ParseDigits(string, first, 0)
                      ELSE ParseDigits(string, first, 0)]

PagePath == <<"/", "p", "a", "g", "e", "/">>

\* A link of Pagination, or the span it renders in its place.
LinkTo(href) == [link |-> TRUE, href |-> href]
NoLink == [link |-> FALSE, href |-> <<>>]

\* Pagination that sends Newer posts of page 2 to /page/1.
MutPagination_NewerToPageOne(currentPage, totalPages, hasNextPage, hasPrevPage) ==
  IF totalPages <= 1 THEN Null
  ELSE [newer |-> IF hasPrevPage
                  THEN LinkTo(PagePath \o NumberToString(currentPage - 1))
                  ELSE NoLink,
        currentPage |-> currentPage,
        totalPages |-> totalPages,
        older |-> IF hasNextPage
                  THEN LinkTo(PagePath \o NumberToString(currentPage + 1))
                  ELSE NoLink]

\* components/Pagination.tsx: null for a single page; else Newer posts, the
\* text "Page currentPage of totalPages", Older posts.
Pagination(currentPage, totalPages, hasNextPage, hasPrevPage) ==
  IF totalPages <= 1 THEN Null
  ELSE [newer |-> IF hasPrevPage
                  THEN LinkTo(IF currentPage = 2 THEN <<"/">>
                              ELSE PagePath \o NumberToString(currentPage - 1))
                  ELSE NoLink,
        currentPage |-> currentPage,
        totalPages |-> totalPages,
        older |-> IF hasNextPage
                  THEN LinkTo(PagePath \o NumberToString(currentPage + 1))
                  ELSE NoLink]

\* The listing both Home and PageNumberPage return.
Listing(pageData) ==
  Bind(PostCards(pageData.posts), LAMBDA cards :
    IF ~cards.ok THEN cards
    ELSE Returned([view |-> "listing",
                   cards |-> cards.val,
                   pagination |-> Pagination(pageData.currentPage,
                                             pageData.totalPages,
                                             pageData.hasNextPage,
                                             pageData.hasPrevPage)]))

\* app/page.tsx
Home(d) ==
  Bind(getPostsPage(d, 1, PostsPerPage), LAMBDA pageData :
    IF ~pageData.ok THEN pageData ELSE Listing(pageData.val))

\* generateStaticParams that yields one page more.
MutGenerateStaticParams_OnePastEnd(d) ==
  Bind(getPostsPage(d, 1, PostsPerPage), LAMBDA firstPage :
    IF ~firstPage.ok THEN firstPage
    ELSE Returned([k \in 1..firstPage.val.totalPages |->
                     [pageNumber |-> NumberToString(k + 1)]]))

\* generateStaticParams of app/page/[pageNumber]/page.tsx
generateStaticParams(d) ==
  Bind(getPostsPage(d, 1, PostsPerPage), LAMBDA firstPage :
    IF ~firstPage.ok THEN firstPage
    ELSE Returned([k \in 1..Max(firstPage.val.totalPages - 1, 0) |->
                     [pageNumber |-> NumberToString(k + 1)]]))

\* PageNumberPage that leaves out the test of an empty page.
MutPageNumberPage_NoEmptyTest(d, pageNumber) ==
  Bind(parseInt(pageNumber), LAMBDA page :
    IF page.nan \/ page.value < 1 THEN Returned(NotFoundView)
    ELSE Bind(getPostsPage(d, page.value, PostsPerPage), LAMBDA pageData :
           IF ~pageData.ok THEN pageData ELSE Listing(pageData.val)))

\* app/page/[pageNumber]/page.tsx
PageNumberPage(d, pageNumber) ==
  Bind(parseInt(pageNumber), LAMBDA page :
    IF page.nan \/ page.value < 1 THEN Returned(NotFoundView)
    ELSE Bind(getPostsPage(d, page.value, PostsPerPage), LAMBDA pageData :
           IF ~pageData.ok THEN pageData
           ELSE IF Len(pageData.val.posts) = 0 THEN Returned(NotFoundView)
           ELSE Listing(pageData.val)))

\* The route of a link of Pagination: "/" is Home, "/page/n" PageNumberPage.
Route(d, href) ==
  IF href = <<"/">> THEN Home(d)
  ELSE PageNumberPage(d, SubSeq(href, Len(PagePath) + 1, Len(href)))

(***************************************************************************)
(* MermaidDiagram (src/components/MermaidDiagram.tsx) on a page.           *)
(*                                                                         *)
(* A page is [components, calls, overtaken, escaped]: a component is       *)
(* [chart, mounted, pending, innerHTML, last], mounted while ref.current   *)
(* is its div, pending while its effect has yet to run, last the call of   *)
(* its own that settled last (0 if none); a call of mermaid.render is      *)
(* [component, id, chart, state], in the order of the calls; overtaken     *)
(* tells that a call settled before an earlier one, escaped that an        *)
(* exception left renderChart.                                             *)
(***************************************************************************)
NoPage == [components |-> <<>>, calls |-> <<>>, overtaken |-> FALSE, escaped |-> FALSE]

\* 'mermaid-' + Math.random().toString(36).substr(2, 9), for the draw r.
RenderId(r) == [prefix |-> "mermaid-", digits |-> r]

NoId == [prefix |-> "", digits |-> 0]

\* The content of a mount point: nothing, the svg of a render, or
\* <pre class="text-red-500">Error rendering diagram: ${error}</pre>.
NoOutput == [kind |-> "empty", id |-> NoId, chart |-> <<>>]
SvgOf(id, chart) == [kind |-> "svg", id |-> id, chart |-> chart]
ErrorHtml(chart) == [kind |-> "error", id |-> NoId, chart |-> chart]

\* The component whose ref the closure of a call holds: its own.
MutRefOf_Shared(call) == 1

RefOf(call) == call.component

\* renderChart after the await, without its catch.
MutRenderChartSettled_NoCatch(component, call, ok) ==
  IF ok
  THEN [innerHTML |-> IF component.mounted THEN SvgOf(call.id, call.chart)
                      ELSE component.innerHTML,
        escaped |-> FALSE]
  ELSE [innerHTML |-> component.innerHTML, escaped |-> TRUE]

\* renderChart after the await, writing without the test of ref.current.
MutRenderChartSettled_NoRefCheck(component, call, ok) ==
  IF ok
  THEN [innerHTML |-> SvgOf(call.id, call.chart), escaped |-> FALSE]
  ELSE [innerHTML |-> ErrorHtml(call.chart), escaped |-> FALSE]

\* renderChart after the await: the svg, or in the catch the error text, is
\* written if ref.current is still set.
renderChartSettled(component, call, ok) ==
  IF ok
  THEN [innerHTML |-> IF component.mounted THEN SvgOf(call.id, call.chart)
                      ELSE component.innerHTML,
        escaped |-> FALSE]
  ELSE [innerHTML |-> IF component.mounted THEN ErrorHtml(call.chart)
                      ELSE component.innerHTML,
        escaped |-> FALSE]

(***************************************************************************)
(* The inputs: posts directories, body texts and Markdown documents.       *)
(***************************************************************************)
Letters == <<"a", "b", "c", "d", "e", "f", "g", "h", "i", "j", "k", "l">>

\* The i-th name readdirSync lists.
FileName(i, suffix) == <<Letters[i]>> \o suffix

TitleHello == <<"H", "e", "l", "l", "o">>
BodyHello == <<"H", "i", ".">>
ExcerptGiven == <<"e", "x">>

\* The slug key the front matter of the posts carries; it is not the name of
\* any file.
SlugGiven == <<"p", "o", "s", "t">>

PostFile(date, excerpt) ==
  [readable |-> TRUE, suffix |-> MdSuffix, body |-> BodyHello,
   fm |-> SlugKey(FrontMatter("yaml", TitleHello, date, excerpt), SlugGiven)]

\* What a file of the directory can be: a post with a date and no excerpt
\* key, one with an excerpt, one with the empty excerpt, a text without front
\* matter, a file whose front matter is not valid YAML, a file that cannot be
\* read, a file that is no .md file.
FileKinds ==
  {PostFile(IsoDate(2024, 1, 6), Undefined),
   PostFile(IsoDate(2025, 7, 28), Undefined),
   PostFile(IsoDate(2024, 1, 6), ExcerptGiven),
   PostFile(IsoDate(2022, 7, 14), <<>>),
   [readable |-> TRUE, suffix |-> MdSuffix, body |-> BodyHello, fm |-> NoFrontMatter],
   [readable |-> TRUE, suffix |-> MdSuffix, body |-> BodyHello, fm |-> BadFrontMatter],
   [readable |-> FALSE, suffix |-> MdSuffix, body |-> BodyHello,
    fm |-> FrontMatter("yaml", TitleHello, IsoDate(2024, 1, 6), Undefined)],
   [readable |-> TRUE, suffix |-> TxtSuffix, body |-> BodyHello, fm |-> NoFrontMatter]}

MakeDir(kinds) ==
  [i \in 1..Len(kinds) |->
     [name |-> FileName(i, kinds[i].suffix), readable |-> kinds[i].readable,
      fm |-> kinds[i].fm, body |-> kinds[i].body]]

\* The dates of the repository's eleven posts, in file name order.
RepoDates ==
  <<IsoDate(2022, 7, 26), IsoDate(2023, 4, 30), IsoDate(2022, 7, 14),
    IsoDate(2025, 6, 11), IsoDate(2022, 7, 21), IsoDate(2024, 1, 6),
    IsoDate(2024, 7, 28), IsoDate(2025, 7, 28), IsoDate(2025, 3, 13),
    IsoDate(2023, 7, 30), IsoDate(2025, 7, 6)>>

\* The first n posts of the repository.
RepoDir(n) ==
  MakeDir([i \in 1..n |->
             PostFile(RepoDates[i], Undefined)])

Directories ==
  {MakeDir(kinds) : kinds \in UNION {[1..n -> FileKinds] : n \in 0..MaxFiles}}
  \cup {RepoDir(Len(RepoDates) - 1), RepoDir(Len(RepoDates))}

Pages == (-1)..MaxPage
PageSizes == (1..MaxPageSize) \cup {PostsPerPage}
Slugs == {<<Letters[i]>> : i \in 1..(MaxFiles + 1)}

TextChars == {"a", " ", "\n"}

\* k words, one space between them.
Words(k) == [i \in 1..((2 * k) - 1) |-> IF i % 2 = 1 THEN "a" ELSE " "]

\* The body of the scenario, and bodies whose first paragraph has Markdown
\* markers.
BodyHelloWorld ==
  <<"H", "e", "l", "l", "o", " ", "w", "o", "r", "l", "d", ".">>
MarkedTexts ==
  {<<"*", "a", "*">>, <<"#", " ", "a">>, <<"a", "\n", "*", "*", "a", "*", "*">>,
   <<"[", "a", "]", "(", "a", ")">>, <<Backtick, "a", Backtick, "\n", "\n", "a">>}

\* Bodies that begin with three dashes: a horizontal rule before the first
\* paragraph, two horizontal rules around a paragraph, dashes inside a line,
\* a horizontal rule and the delimiter row of a table.
DashedTexts ==
  {<<"-", "-", "-", "\n", "\n", "a">>,
   <<"-", "-", "-", "\n", "\n", "a", "\n", "\n", "-", "-", "-">>,
   <<"-", "-", "-", " ", "a", " ", "-", "-", "-", " ", "a", "a">>,
   <<"-", "-", "-", "\n", "a", "\n", "|", "-", "-", "-", "|">>,
   <<"-", "-", "-", "-", " ", "a">>}

Texts ==
  UNION {[1..n -> TextChars] : n \in 0..MaxTextLen}
  \cup {BodyHello, BodyHelloWorld}
  \cup MarkedTexts
  \cup DashedTexts
  \cup {Words(k) : k \in {WordsPerMinute - 1, WordsPerMinute, WordsPerMinute + 1,
                          2 * WordsPerMinute, (2 * WordsPerMinute) + 1}}

\* A Markdown document [pre, charts, post]: the text before the first mermaid
\* block, the inner texts of its mermaid blocks, the text after the last.
ChartScenario == <<"A", "-", "-", ">", "B">>
ChartTexts ==
  UNION {[1..n -> {"A", " ", "\n"}] : n \in 0..MaxChartLen} \cup {ChartScenario}
LaterChartTexts == {ChartScenario, <<" ", "A", "\n">>}

Docs ==
  {[pre |-> pre, charts |-> charts, post |-> post] :
     pre \in {<<>>, <<"x", "\n", "\n">>},
     post \in {<<>>, <<"\n", "\n", "x">>},
     charts \in {<<>>} \cup
       {<<first>> \o rest :
          first \in ChartTexts,
          rest \in UNION {[1..n -> LaterChartTexts] : n \in 0..(MaxCharts - 1)}}}

EmptyDoc == [pre |-> <<>>, charts |-> <<>>, post |-> <<>>]

Fence(chart) == FenceOpen \o chart \o FenceClose

RECURSIVE JoinFences(_)
JoinFences(charts) ==
  IF Len(charts) = 0 THEN <<>>
  ELSE IF Len(charts) = 1 THEN Fence(charts[1])
  ELSE Fence(charts[1]) \o <<"\n", "\n">> \o JoinFences(Tail(charts))

\* The Markdown text of a document.
Markdown(d) == d.pre \o JoinFences(d.charts) \o d.post

\* The lines Markdown bodies are written with: a word, a number, a blank line,
\* the opening fence of a mermaid block, of a block in a language that is not
\* registered and of one that is, a closing fence, and an indented one.
MermaidLine == SubSeq(FenceOpen, 1, Len(FenceOpen) - 1)
BodyLines ==
  {<<"A">>, <<"1">>, <<>>, MermaidLine,
   <<Backtick, Backtick, Backtick>>,
   <<" ", Backtick, Backtick, Backtick>>,
   <<Backtick, Backtick, Backtick, "x", "y", "z">>,
   <<Backtick, Backtick, Backtick, "j", "s">>}

\* Markdown bodies: every text of at most MaxBodyLines of these lines, well
\* formed or not, and the texts of the documents above.
Bodies ==
  {JoinLines(ls) : ls \in UNION {[1..n -> BodyLines] : n \in 0..MaxBodyLines}}
    \cup {Markdown(d) : d \in Docs}

(***************************************************************************)
(* Spec: the accessor and the pages over a posts directory.                *)
(***************************************************************************)
Init ==
  /\ dir \in Directories
  /\ text = <<>>
  /\ doc = EmptyDoc
  /\ op = "init"
  /\ arg = <<>>
  /\ ret = <<>>
  /\ screen = NoPage

GetAllPosts ==
  /\ op = "init"
  /\ op' = "getAllPosts"
  /\ arg' = <<>>
  /\ ret' = getAllPosts(dir)
  /\ UNCHANGED <<dir, text, doc, screen>>

GetPostsPage(page, postsPerPage) ==
  /\ op = "init"
  /\ op' = "getPostsPage"
  /\ arg' = [page |-> page, postsPerPage |-> postsPerPage]
  /\ ret' = getPostsPage(dir, page, postsPerPage)
  /\ UNCHANGED <<dir, text, doc, screen>>

GetPostBySlug(slug) ==
  /\ op = "init"
  /\ op' = "getPostBySlug"
  /\ arg' = [slug |-> slug]
  /\ ret' = getPostBySlug(dir, slug)
  /\ UNCHANGED <<dir, text, doc, screen>>

RenderPostPage(slug) ==
  /\ op = "init"
  /\ op' = "PostPage"
  /\ arg' = [slug |-> slug]
  /\ ret' = PostPage(dir, slug)
  /\ UNCHANGED <<dir, text, doc, screen>>

RenderHome ==
  /\ op = "init"
  /\ op' = "Home"
  /\ arg' = <<>>
  /\ ret' = Home(dir)
  /\ UNCHANGED <<dir, text, doc, screen>>

\* The call has returned: every call starts from the same directory, nothing is
\* kept between calls.
Finish ==
  /\ op # "init"
  /\ op' = "init"
  /\ arg' = <<>>
  /\ ret' = <<>>
  /\ UNCHANGED <<dir, text, doc, screen>>

Next ==
  \/ GetAllPosts
  \/ \E page \in Pages, postsPerPage \in PageSizes : GetPostsPage(page, postsPerPage)
  \/ \E slug \in Slugs : GetPostBySlug(slug)
  \/ \E slug \in Slugs : RenderPostPage(slug)
  \/ RenderHome
  \/ Finish

Spec == Init /\ [][Next]_vars

(***************************************************************************)
(* SpecText: the derivations over a body text.                             *)
(***************************************************************************)
InitText ==
  /\ dir = <<>>
  /\ text \in Texts
  /\ doc = EmptyDoc
  /\ op = "init"
  /\ arg = <<>>
  /\ ret = <<>>
  /\ screen = NoPage

CalculateReadingTime ==
  /\ op = "init"
  /\ op' = "calculateReadingTime"
  /\ arg' = <<>>
  /\ ret' = calculateReadingTime(text)
  /\ UNCHANGED <<dir, text, doc, screen>>

GenerateExcerpt ==
  /\ op = "init"
  /\ Len(text) <= MaxExcerptInput
  /\ op' = "generateExcerpt"
  /\ arg' = <<>>
  /\ ret' = generateExcerpt(text)
  /\ UNCHANGED <<dir, text, doc, screen>>

NextText == CalculateReadingTime \/ GenerateExcerpt \/ Finish

SpecText == InitText /\ [][NextText]_vars

(***************************************************************************)
(* SpecMarkdown: a document through markdownToHtml and then through        *)
(* renderContentWithMermaid, as BlogPost runs them.                        *)
(***************************************************************************)
InitMarkdown ==
  /\ dir = <<>>
  /\ text = <<>>
  /\ doc \in Docs
  /\ op = "init"
  /\ arg = <<>>
  /\ ret = <<>>
  /\ screen = NoPage

MarkdownToHtml ==
  /\ op = "init"
  /\ op' = "markdownToHtml"
  /\ arg' = Markdown(doc)
  /\ ret' = markdownToHtml(Markdown(doc))
  /\ UNCHANGED <<dir, text, doc, screen>>

RenderContentWithMermaid ==
  /\ op = "markdownToHtml"
  /\ ret.ok
  /\ op' = "renderContentWithMermaid"
  /\ arg' = ret.val
  /\ ret' = renderContentWithMermaid(ret.val)
  /\ UNCHANGED <<dir, text, doc, screen>>

NextMarkdown == MarkdownToHtml \/ RenderContentWithMermaid

SpecMarkdown == InitMarkdown /\ [][NextMarkdown]_vars

(***************************************************************************)
(* SpecBody: a Markdown body, of any shape, through markdownToHtml and     *)
(* renderContentWithMermaid.                                               *)
(***************************************************************************)
InitBody ==
  /\ dir = <<>>
  /\ text \in Bodies
  /\ doc = EmptyDoc
  /\ op = "init"
  /\ arg = <<>>
  /\ ret = <<>>
  /\ screen = NoPage

ConvertBody ==
  /\ op = "init"
  /\ op' = "markdownToHtml"
  /\ arg' = text
  /\ ret' = markdownToHtml(text)
  /\ UNCHANGED <<dir, text, doc, screen>>

NextBody == ConvertBody \/ RenderContentWithMermaid

SpecBody == InitBody /\ [][NextBody]_vars

(***************************************************************************)
(* SpecDiagrams: the MermaidDiagram components of one page. The effects    *)
(* start the renders, the renders settle in any order, each with either    *)
(* outcome; a chart prop may change and a component may unmount meanwhile. *)
(***************************************************************************)
\* The chart of the i-th diagram of a page, different for each, and the chart
\* a chart prop changes to.
ChartOf(i) == [j \in 1..i |-> "A"]
ChangedChart == ChartScenario

\* Pages of 1..MaxDiagrams diagrams, rendered and mounted, no effect run yet.
DiagramPages ==
  {[components |-> [i \in 1..n |-> [chart |-> ChartOf(i), mounted |-> TRUE,
                                    pending |-> TRUE, innerHTML |-> NoOutput,
                                    last |-> 0]],
    calls |-> <<>>, overtaken |-> FALSE, escaped |-> FALSE] :
     n \in 1..MaxDiagrams}

InitDiagrams ==
  /\ dir = <<>>
  /\ text = <<>>
  /\ doc = EmptyDoc
  /\ op = "init"
  /\ arg = <<>>
  /\ ret = <<>>
  /\ screen \in DiagramPages

\* No chart prop has changed and no component has unmounted so far.
Undisturbed ==
  \A i \in 1..Len(screen.components) :
    /\ screen.components[i].mounted
    /\ screen.components[i].chart = ChartOf(i)

\* useEffect of component i: ref.current is set, renderChart calls
\* mermaid.render with the id of the draw r and awaits it.
RunEffect(i, r) ==
  /\ i \in 1..Len(screen.components)
  /\ screen.components[i].pending
  /\ screen.components[i].mounted
  /\ screen' = [screen EXCEPT
                !.components[i].pending = FALSE,
                !.calls = Append(@, [component |-> i, id |-> RenderId(r),
                                     chart |-> screen.components[i].chart,
                                     state |-> "inflight"])]
  /\ UNCHANGED <<dir, text, doc, op, arg, ret>>

\* The promise of call k settles, fulfilled (ok) or rejected.
SettleRender(k, ok) ==
  /\ k \in 1..Len(screen.calls)
  /\ screen.calls[k].state = "inflight"
  /\ LET call == screen.calls[k]
         res == renderChartSettled(screen.components[RefOf(call)], call, ok)
     IN  screen' = [screen EXCEPT
                    !.components[RefOf(call)].innerHTML = res.innerHTML,
                    !.calls[k].state = IF ok THEN "svg" ELSE "error",
                    !.components[call.component].last = k,
                    !.overtaken =
                      @ \/ \E j \in 1..(k - 1) : screen.calls[j].state = "inflight",
                    !.escaped = @ \/ res.escaped]
  /\ UNCHANGED <<dir, text, doc, op, arg, ret>>

\* The chart prop of component i changes, the first such event on the page:
\* the effect is due again.
ChangeChart(i, chart) ==
  /\ i \in 1..Len(screen.components)
  /\ Undisturbed
  /\ ~screen.components[i].pending
  /\ screen' = [screen EXCEPT !.components[i].chart = chart,
                          !.components[i].pending = TRUE]
  /\ UNCHANGED <<dir, text, doc, op, arg, ret>>

\* Component i unmounts, the first such event on the page: ref.current is null
\* from now on.
Unmount(i) ==
  /\ i \in 1..Len(screen.components)
  /\ Undisturbed
  /\ screen' = [screen EXCEPT !.components[i].mounted = FALSE,
                          !.components[i].pending = FALSE]
  /\ UNCHANGED <<dir, text, doc, op, arg, ret>>

NextDiagrams ==
  \/ \E i \in 1..MaxDiagrams, r \in 1..MaxDiagrams : RunEffect(i, r)
  \/ \E k \in 1..(MaxDiagrams + 1), ok \in BOOLEAN : SettleRender(k, ok)
  \/ \E i \in 1..MaxDiagrams : ChangeChart(i, ChangedChart)
  \/ \E i \in 1..MaxDiagrams : Unmount(i)

SpecDiagrams == InitDiagrams /\ [][NextDiagrams]_vars

(***************************************************************************)
(* SpecCard: PostCard over excerpts around the length limit.               *)
(***************************************************************************)
\* An excerpt of n characters, no two neighbours equal.
ExcerptOfLength(n) == [i \in 1..n |-> Letters[(i % Len(Letters)) + 1]]

Excerpts == {ExcerptOfLength(n) : n \in 0..(ExcerptLimit + 3)} \cup {Undefined}

CardPost(excerpt) ==
  [slug |-> <<"a">>, title |-> TitleHello, date |-> IsoDate(2024, 1, 6),
   excerpt |-> excerpt, content |-> BodyHello, readingTime |-> 1]

InitCard ==
  /\ dir = <<>>
  /\ text \in Excerpts
  /\ doc = EmptyDoc
  /\ op = "init"
  /\ arg = <<>>
  /\ ret = <<>>
  /\ screen = NoPage

RenderPostCard ==
  /\ op = "init"
  /\ op' = "PostCard"
  /\ arg' = CardPost(text)
  /\ ret' = PostCard(CardPost(text))
  /\ UNCHANGED <<dir, text, doc, screen>>

NextCard == RenderPostCard \/ Finish

SpecCard == InitCard /\ [][NextCard]_vars

(***************************************************************************)
(* SpecHydrate: renderContentWithMermaid over HTML texts.                  *)
(***************************************************************************)
\* The pieces HTML texts are written with: a paragraph, a line break, the
\* placeholders of two charts, and a div that carries the attribute of a
\* placeholder but is not empty, as raw HTML of a post can be.
FilledDiv ==
  PlaceholderOpen \o Base64Encode(Utf8Encode(<<"A">>))
    \o <<"\"", ">", "x", "<", "/", "d", "i", "v", ">">>
HtmlSegments ==
  {<<"<", "p", ">", "A", "<", "/", "p", ">">>, <<"\n">>,
   EncodeChart(<<"A">>), EncodeChart(ChartScenario), FilledDiv}

RECURSIVE Concat(_)
Concat(segments) ==
  IF Len(segments) = 0 THEN <<>> ELSE Head(segments) \o Concat(Tail(segments))

Htmls ==
  {Concat(segments) :
     segments \in UNION {[1..n -> HtmlSegments] : n \in 0..MaxSegments}}

InitHydrate ==
  /\ dir = <<>>
  /\ text \in Htmls
  /\ doc = EmptyDoc
  /\ op = "init"
  /\ arg = <<>>
  /\ ret = <<>>
  /\ screen = NoPage

RenderHtmlWithMermaid ==
  /\ op = "init"
  /\ op' = "renderContentWithMermaid"
  /\ arg' = text
  /\ ret' = renderContentWithMermaid(text)
  /\ UNCHANGED <<dir, text, doc, screen>>

NextHydrate == RenderHtmlWithMermaid \/ Finish

SpecHydrate == InitHydrate /\ [][NextHydrate]_vars

(***************************************************************************)
(* SpecSlug: getPostBySlug and getAllPosts over a posts directory with     *)
(* files next to it, for slugs with and without path separators.           *)
(***************************************************************************)
\* A post in the directory above postsDirectory and one in a subdirectory.
OutsideFile ==
  [name |-> <<".", ".", "/", "a">> \o MdSuffix, readable |-> TRUE,
   fm |-> FrontMatter("yaml", TitleHello, IsoDate(2024, 1, 6), Undefined),
   body |-> BodyHello]
NestedFile ==
  [name |-> <<"b", "/", "a">> \o MdSuffix, readable |-> TRUE,
   fm |-> FrontMatter("yaml", TitleHello, IsoDate(2024, 1, 6), Undefined),
   body |-> BodyHello]

SlugDirectories ==
  {MakeDir(kinds) \o others :
     kinds \in UNION {[1..n -> FileKinds] : n \in 0..MaxSlugFiles},
     others \in {<<>>, <<OutsideFile>>, <<NestedFile>>, <<OutsideFile, NestedFile>>}}

PathSlugs ==
  {<<"a">>, <<"b">>, <<"c">>, <<".", ".", "/", "a">>, <<"b", "/", "a">>,
   <<".", "/", "a">>, <<"b", "/", ".", ".", "/", "a">>}

InitSlug ==
  /\ dir \in SlugDirectories
  /\ text = <<>>
  /\ doc = EmptyDoc
  /\ op = "init"
  /\ arg = <<>>
  /\ ret = <<>>
  /\ screen = NoPage

NextSlug ==
  \/ GetAllPosts
  \/ \E slug \in PathSlugs : GetPostBySlug(slug)
  \/ Finish

SpecSlug == InitSlug /\ [][NextSlug]_vars

(***************************************************************************)
(* SpecPages: the home page and the page route over directories of up to   *)
(* MaxPosts posts, opened by their address or through the links of         *)
(* Pagination.                                                             *)
(***************************************************************************)
\* n posts with the dates of the repository's posts, in turn.
PostsDir(n) ==
  MakeDir([i \in 1..n |->
             PostFile(RepoDates[((i - 1) % Len(RepoDates)) + 1], Undefined)])

\* Directories of n posts, and of n posts and one more file of any kind.
PageDirectories ==
  {PostsDir(n) : n \in 0..MaxPosts}
  \cup {MakeDir([i \in 1..n |->
                   IF i = n THEN kind
                   ELSE PostFile(RepoDates[((i - 1) % Len(RepoDates)) + 1],
                                 Undefined)]) :
          n \in 1..MaxPosts, kind \in FileKinds}

\* The pageNumber segment of an address: numerals, numerals with a sign, with
\* a space before or a letter or a fraction after them, and no numeral.
PageNumbers ==
  {NumberToString(n) : n \in 0..(Ceil(MaxPosts, PostsPerPage) + 1)}
  \cup {<<"-", "1">>, <<"x">>, <<>>, <<"2", "x">>, <<" ", "2">>,
         <<"1", ".", "5">>, <<"0", "2">>}

InitPages ==
  /\ dir \in PageDirectories
  /\ text = <<>>
  /\ doc = EmptyDoc
  /\ op = "init"
  /\ arg = <<>>
  /\ ret = <<>>
  /\ screen = NoPage

RenderPageNumberPage(pageNumber) ==
  /\ op = "init"
  /\ op' = "PageNumberPage"
  /\ arg' = [pageNumber |-> pageNumber]
  /\ ret' = PageNumberPage(dir, pageNumber)
  /\ UNCHANGED <<dir, text, doc, screen>>

GenerateStaticParams ==
  /\ op = "init"
  /\ op' = "generateStaticParams"
  /\ arg' = <<>>
  /\ ret' = generateStaticParams(dir)
  /\ UNCHANGED <<dir, text, doc, screen>>

\* A listing with its Pagination is on the screen.
ShowsPagination ==
  /\ op \in {"Home", "PageNumberPage"}
  /\ ret.ok
  /\ ret.val.view = "listing"
  /\ ret.val.pagination # Null

\* The reader follows a link of Pagination: the route of its href renders.
Follow(link) ==
  /\ link.link
  /\ op' = IF link.href = <<"/">> THEN "Home" ELSE "PageNumberPage"
  /\ arg' = IF link.href = <<"/">> THEN <<>>
            ELSE [pageNumber |-> SubSeq(link.href, Len(PagePath) + 1,
                                        Len(link.href))]
  /\ ret' = Route(dir, link.href)
  /\ UNCHANGED <<dir, text, doc, screen>>

FollowOlder == ShowsPagination /\ Follow(ret.val.pagination.older)

FollowNewer == ShowsPagination /\ Follow(ret.val.pagination.newer)

NextPages ==
  \/ RenderHome
  \/ \E pageNumber \in PageNumbers : RenderPageNumberPage(pageNumber)
  \/ GenerateStaticParams
  \/ FollowOlder
  \/ FollowNewer
  \/ Finish

SpecPages == InitPages /\ [][NextPages]_vars

\* Every .md file of the directory is a readable post with a date.
WellFormed(d) ==
  \A i \in 1..Len(d) :
    EndsWith(d[i].name, MdSuffix)
      => d[i].readable /\ d[i].fm.kind = "yaml" /\ d[i].fm.date # Undefined

\* Directories of any number of posts up to MaxPosts.
PostDirectories == {d \in PageDirectories : WellFormed(d)}

InitPosts ==
  /\ dir \in PostDirectories
  /\ text = <<>>
  /\ doc = EmptyDoc
  /\ op = "init"
  /\ arg = <<>>
  /\ ret = <<>>
  /\ screen = NoPage

(***************************************************************************)
(* SpecStatic: the build of the page route: generateStaticParams, then     *)
(* PageNumberPage for each of the params it returned.                      *)
(***************************************************************************)
RenderStaticPage(k) ==
  /\ op = "generateStaticParams"
  /\ ret.ok
  /\ k \in 1..Len(ret.val)
  /\ op' = "PageNumberPage"
  /\ arg' = ret.val[k]
  /\ ret' = PageNumberPage(dir, ret.val[k].pageNumber)
  /\ UNCHANGED <<dir, text, doc, screen>>

NextStatic ==
  \/ GenerateStaticParams
  \/ \E k \in 1..Ceil(MaxPosts, PostsPerPage) : RenderStaticPage(k)

SpecStatic == InitPosts /\ [][NextStatic]_vars

(***************************************************************************)
(* SpecOlder: a reader opens the home page and keeps following Older       *)
(* posts as long as it is a link.                                          *)
(***************************************************************************)
NextOlder == RenderHome \/ FollowOlder

SpecOlder ==
  InitPosts /\ [][NextOlder]_vars /\ WF_vars(RenderHome) /\ WF_vars(FollowOlder)

(***************************************************************************)
(* Properties.                                                             *)
(***************************************************************************)
\* The posts of the pages p..Len(pages) of a sequence of pages, page after
\* page.
RECURSIVE ConcatPages(_, _)
ConcatPages(pages, p) ==
  IF p > Len(pages) THEN <<>>
  ELSE pages[p] \o ConcatPages(pages, p + 1)

\* C1: for any directory and page size > 0, the posts of pages 1..totalPages,
\* in page order, are exactly the sequence getAllPosts returns, and no page
\* holds more than postsPerPage posts.
PagesReconstructListing ==
  (op = "getPostsPage" /\ ret.ok) =>
    /\ Len(ret.val.posts) <= arg.postsPerPage
    /\ Bind([p \in 1..ret.val.totalPages |->
               getPostsPage(dir, p, arg.postsPerPage).val.posts], LAMBDA pages :
         /\ \A p \in 1..Len(pages) : Len(pages[p]) <= arg.postsPerPage
         /\ ConcatPages(pages, 1) = getAllPosts(dir).val)

\* The last of at least three pages has been fetched and is partly filled.
PagesReconstructListingWitness ==
  /\ op = "getPostsPage"
  /\ ret.ok
  /\ ret.val.totalPages >= 3
  /\ arg.page = ret.val.totalPages
  /\ Len(ret.val.posts) >= 1
  /\ Len(ret.val.posts) < arg.postsPerPage

\* The least n with n * size >= total.
LeastCover(total, size) ==
  CHOOSE n \in 0..total :
    n * size >= total /\ \A m \in 0..(n - 1) : m * size < total

\* C2: totalPosts is the number of posts of getAllPosts, totalPages is
\* ceil(totalPosts / postsPerPage) and hasNextPage is
\* currentPage * postsPerPage < totalPosts.
ListingCountsAgree ==
  (op = "getPostsPage" /\ ret.ok) =>
    /\ ret.val.totalPosts = Len(getAllPosts(dir).val)
    /\ ret.val.currentPage = arg.page
    /\ ret.val.totalPages = LeastCover(ret.val.totalPosts, arg.postsPerPage)
    /\ ret.val.hasNextPage
         <=> (ret.val.currentPage * arg.postsPerPage < ret.val.totalPosts)

\* A page with a next page, of a listing whose last page is partly filled.
ListingCountsAgreeWitness ==
  /\ op = "getPostsPage"
  /\ ret.ok
  /\ ret.val.totalPosts % arg.postsPerPage # 0
  /\ ret.val.totalPages >= 2
  /\ ret.val.hasNextPage

\* The .md files of a directory, in readdirSync order.
MdFiles(d) == SelectSeq(d, LAMBDA f : EndsWith(f.name, MdSuffix))

Stem(name) == SubSeq(name, 1, Len(name) - Len(MdSuffix))

\* C3: getAllPosts returns a permutation of the posts parsed from the .md
\* files, by date descending: of two posts that both have a date, none comes
\* before one with a later date.
ListingSortedByDateDescending ==
  (op = "getAllPosts" /\ ret.ok) =>
    /\ Len(ret.val) = Len(MdFiles(dir))
    /\ {ret.val[i] : i \in 1..Len(ret.val)}
         = {ReadPost(dir, MdFiles(dir)[i].name).val : i \in 1..Len(MdFiles(dir))}
    /\ \A i, j \in 1..Len(ret.val) :
         (i < j /\ ret.val[i].date # Undefined /\ ret.val[j].date # Undefined)
           => ~JsLess(ret.val[i].date, ret.val[j].date)

\* C4: a page number greater than totalPages gives an empty page without a
\* next page, and no error.
PagePastEndIsEmpty ==
  (/\ op = "getPostsPage"
   /\ arg.page >= 1
   /\ Bind(getAllPosts(dir), LAMBDA all :
        /\ all.ok
        /\ (arg.page - 1) * arg.postsPerPage >= Len(all.val))) =>
    /\ ret.ok
    /\ ret.val.posts = <<>>
    /\ ~ret.val.hasNextPage

\* getPostsPage(3, 5) over exactly ten posts has returned no posts.
PagePastEndIsEmptyWitness ==
  /\ op = "getPostsPage"
  /\ arg.page = 3
  /\ arg.postsPerPage = PostsPerPage
  /\ ret.ok
  /\ ret.val.totalPosts = 10
  /\ ret.val.posts = <<>>

FileExists(d, name) == \E i \in 1..Len(d) : d[i].name = name

\* C5: getPostBySlug never throws: it returns null or the post of the file
\* <slug>.md.
GetPostBySlugIsTotal ==
  op = "getPostBySlug" =>
    /\ ret.ok
    /\ \/ ret.val = Null
       \/ /\ ret.val.slug = arg.slug
          /\ \E i \in 1..Len(dir) :
               /\ dir[i].name = arg.slug \o MdSuffix
               /\ ret.val.content = dir[i].body

\* getPostBySlug has returned null for a slug that has no file.
GetPostBySlugIsTotalWitness ==
  /\ op = "getPostBySlug"
  /\ ~FileExists(dir, arg.slug \o MdSuffix)
  /\ Len(dir) > 0
  /\ ret.ok
  /\ ret.val = Null

\* A file of that name exists and can be read.
FileReadable(d, name) == \E i \in 1..Len(d) : d[i].name = name /\ d[i].readable

\* C6: null from getPostBySlug, and notFound from PostPage, only for a slug
\* whose file is missing; a file whose metadata does not parse gives a post.
NotFoundOnlyForMissingFile ==
  /\ (op = "getPostBySlug" /\ ret.ok /\ ret.val = Null)
       => ~FileReadable(dir, arg.slug \o MdSuffix)
  /\ (op = "PostPage" /\ ret.ok /\ ret.val = NotFoundView)
       => ~FileReadable(dir, arg.slug \o MdSuffix)

\* C7: with a file whose metadata block is missing or unparseable, getAllPosts
\* still returns the complete listing, that file in it as a post with undefined
\* title and date and its body as content.
MalformedMetadataIsNotFatal ==
  (op = "getAllPosts" /\ \A i \in 1..Len(dir) : dir[i].readable) =>
    /\ ret.ok
    /\ Len(ret.val) = Len(MdFiles(dir))
    /\ \A i \in 1..Len(MdFiles(dir)) :
         MdFiles(dir)[i].fm.kind \in {"none", "bad"} =>
           \E k \in 1..Len(ret.val) :
             /\ ret.val[k].slug = Stem(MdFiles(dir)[i].name)
             /\ ret.val[k].title = Undefined
             /\ ret.val[k].date = Undefined
             /\ ret.val[k].content = MdFiles(dir)[i].body

\* C8: rendering BlogPost (the post page) or PostCard (the listing) for a post
\* whose date and title are undefined does not throw.
ConsumersTolerateUndefinedMetadata ==
  /\ (/\ op = "PostPage"
      /\ getPostBySlug(dir, arg.slug).val # Null
      /\ getPostBySlug(dir, arg.slug).val.date = Undefined
      /\ getPostBySlug(dir, arg.slug).val.title = Undefined) => ret.ok
  /\ (op = "Home" /\ getPostsPage(dir, 1, PostsPerPage).ok) => ret.ok

\* The number of maximal runs of non-whitespace characters of a text.
TokenCount(s) ==
  Cardinality({i \in 1..Len(s) :
                 ~IsSpace(s[i]) /\ (i = 1 \/ IsSpace(s[i - 1]))})

\* The reading time of an empty or whitespace-only body is 1, not ceil(0/200).
ReadingTimeIsCeilOfTokens ==
  op = "calculateReadingTime" =>
    /\ ret = LeastCover(TokenCount(text), WordsPerMinute)
    /\ (text # <<>> => ret >= 1)

\* C9: readingTime is ceil(n / 200) for a body of n >= 1 whitespace-separated
\* tokens and 1 for an empty or whitespace-only body, hence at least 1 for
\* every body.
ReadingTimeIsCeilOfAtLeastOneToken ==
  op = "calculateReadingTime" =>
    /\ ret = LeastCover(Max(TokenCount(text), 1), WordsPerMinute)
    /\ ret >= 1

\* The reading time of a whitespace-only body has been computed.
ReadingTimeIsCeilOfAtLeastOneTokenWitness ==
  /\ op = "calculateReadingTime"
  /\ text # <<>>
  /\ TokenCount(text) = 0
  /\ ret = 1

\* The MermaidDiagram parts of a rendered post, in order.
Diagrams(parts) == SelectSeq(parts, LAMBDA p : p.component = "MermaidDiagram")

\* The decoded payload loses the leading and trailing whitespace of the fence.
PlaceholderDecodesToInnerText ==
  op = "renderContentWithMermaid" =>
    \A k \in 1..Len(Diagrams(ret)) :
      k <= Len(doc.charts) /\ Diagrams(ret)[k].chart = doc.charts[k]

\* C10: the payload of the k-th placeholder decodes to the inner text of the
\* k-th mermaid fence with its leading and trailing whitespace removed, and so
\* to the inner text itself when it has none.
PlaceholderDecodesToTrimmedInnerText ==
  op = "renderContentWithMermaid" =>
    \A k \in 1..Len(Diagrams(ret)) :
      k <= Len(doc.charts) /\ Diagrams(ret)[k].chart = Trim(doc.charts[k])

\* A fence whose inner text starts or ends with whitespace has been rendered
\* as a diagram.
PlaceholderDecodesToTrimmedInnerTextWitness ==
  /\ op = "renderContentWithMermaid"
  /\ \E k \in 1..Len(Diagrams(ret)) :
       /\ k <= Len(doc.charts)
       /\ doc.charts[k] # Trim(doc.charts[k])
       /\ Trim(doc.charts[k]) # <<>>
       /\ Diagrams(ret)[k].chart = Trim(doc.charts[k])

MermaidLang == <<"m", "e", "r", "m", "a", "i", "d">>

\* The fenced code blocks of a Markdown text whose language is mermaid.
MermaidBlocks(markdown) ==
  SelectSeq(Parse(markdown),
            LAMBDA b : b.kind = "code" /\ b.fence.lang = MermaidLang)

\* The placeholder elements of an HTML text, in order.
Placeholders(html) ==
  Bind(SplitPlaceholders(html, 1), LAMBDA parts :
    [k \in 1..(Len(parts) \div 2) |-> parts[2 * k]])

\* C11: for a body with k mermaid fenced blocks, the text handed to the
\* Markdown parser has no mermaid fenced block, and the HTML has exactly k
\* placeholder elements, in source order, the k-th with the payload of the
\* k-th block.
ExtractionPrecedesParsing ==
  op = "markdownToHtml" =>
    /\ MermaidBlocks(ReplaceFences(text, 1)) = <<>>
    /\ ret.ok
    /\ Placeholders(ret.val)
         = [k \in 1..Len(MermaidBlocks(text)) |->
              EncodeChart(CodeValue(MermaidBlocks(text)[k]))]

\* The fenced code blocks the Markdown parser is handed whose language is given
\* and is not registered with the highlighter.
UnknownLanguageBlocks(markdown) ==
  SelectSeq(Parse(ReplaceFences(markdown, 1)),
            LAMBDA b : /\ b.kind = "code"
                       /\ b.fence.lang # <<>>
                       /\ b.fence.lang \notin RegisteredLanguages)

\* The code element of a block that was not highlighted: its text, escaped,
\* and no token spans.
Unhighlighted(block) ==
  PreOpen \o <<"<", "c", "o", "d", "e">> \o HljsClass(block.fence.lang) \o <<">">>
    \o Escape(CodeText(block)) \o CodeClose

\* C19: markdownToHtml never rejects: for every body, malformed or not, it
\* resolves to an HTML string, and every code block whose language is not
\* registered is in it as unhighlighted code.
MarkdownToHtmlNeverRejects ==
  op = "markdownToHtml" =>
    /\ ret.ok
    /\ ret.val \in Seq(STRING)
    /\ \A k \in 1..Len(UnknownLanguageBlocks(text)) :
         IndexOf(ret.val, Unhighlighted(UnknownLanguageBlocks(text)[k]), 1) > 0

\* A body with an unclosed code block in a language that is not registered,
\* holding a number a highlighter would mark, has been converted.
MarkdownToHtmlNeverRejectsWitness ==
  /\ op = "markdownToHtml"
  /\ ret.ok
  /\ \E k \in 1..Len(UnknownLanguageBlocks(text)) :
       /\ UnknownLanguageBlocks(text)[k].fence.lang = <<"x", "y", "z">>
       /\ \E i \in 1..Len(CodeText(UnknownLanguageBlocks(text)[k])) :
            IsDigit(CodeText(UnknownLanguageBlocks(text)[k])[i])
  /\ text[Len(text)] = "1"

\* What the render call k has to show: its svg or its error text.
OutputOf(k) ==
  IF screen.calls[k].state = "svg"
  THEN SvgOf(screen.calls[k].id, screen.calls[k].chart)
  ELSE ErrorHtml(screen.calls[k].chart)

\* C12: a failed render puts the error text into the mount point of its own
\* diagram and nothing leaves renderChart: no exception reaches the page, and
\* the mount point of every diagram whose render has settled shows the output
\* of that render, the svg for those that succeeded.
RenderFailureIsIsolated ==
  /\ ~screen.escaped
  /\ \A i \in 1..Len(screen.components) :
       (screen.components[i].mounted /\ screen.components[i].last # 0)
         => screen.components[i].innerHTML = OutputOf(screen.components[i].last)

\* One diagram shows its error text, another one of the page its svg.
RenderFailureIsIsolatedWitness ==
  /\ Undisturbed
  /\ \E i, j \in 1..Len(screen.components) :
       /\ screen.components[i].last # 0
       /\ screen.components[j].last # 0
       /\ screen.components[i].innerHTML = ErrorHtml(ChartOf(i))
       /\ screen.components[j].innerHTML.kind = "svg"

\* C13: no two calls of mermaid.render on a page use the same identifier.
RenderIdsDistinct ==
  \A j, k \in 1..Len(screen.calls) :
    j # k => screen.calls[j].id # screen.calls[k].id

\* C14: each render writes to the mount point of its own component only: a
\* mount point never holds the output of another diagram's chart, and once
\* the renders of a page have settled, in whatever order, each mount point
\* holds the svg or the error text of its own chart.
EachMountHoldsItsOwnOutput ==
  Undisturbed =>
    \A i \in 1..Len(screen.components) :
      /\ screen.components[i].innerHTML.chart \in {<<>>, ChartOf(i)}
      /\ (screen.components[i].last = 0)
           => screen.components[i].innerHTML = NoOutput
      /\ (screen.components[i].last # 0)
           => /\ screen.calls[screen.components[i].last].component = i
              /\ screen.components[i].innerHTML
                   = OutputOf(screen.components[i].last)

\* The renders of a page of several diagrams have all settled, one of them
\* before an earlier one.
EachMountHoldsItsOwnOutputWitness ==
  /\ Undisturbed
  /\ Len(screen.components) >= 2
  /\ screen.overtaken
  /\ \A i \in 1..Len(screen.components) : screen.components[i].last # 0

\* C15: the slug of each post of getAllPosts is the name of its file without
\* the .md suffix, whatever slug key the front matter has, and no two posts
\* of the listing have the same slug.
SlugsAreFileNames ==
  (op = "getAllPosts" /\ ret.ok) =>
    /\ Len(ret.val) = Len(MdFiles(dir))
    /\ {ret.val[k].slug : k \in 1..Len(ret.val)}
         = {Stem(MdFiles(dir)[i].name) : i \in 1..Len(MdFiles(dir))}
    /\ \A j, k \in 1..Len(ret.val) :
         j # k => ret.val[j].slug # ret.val[k].slug

\* A listing of several posts whose front matter has a slug key that is not
\* the file name.
SlugsAreFileNamesWitness ==
  /\ op = "getAllPosts"
  /\ ret.ok
  /\ Len(ret.val) >= 2
  /\ \A i \in 1..Len(MdFiles(dir)) :
       /\ MdFiles(dir)[i].fm.slug = SlugGiven
       /\ MdFiles(dir)[i].fm.slug # Stem(MdFiles(dir)[i].name)

\* The file of a slug.
FileOf(d, slug) == d[CHOOSE i \in 1..Len(d) : d[i].name = slug \o MdSuffix]

\* The excerpt of a post is the excerpt key of its file when there is one, and
\* derived from the body when there is none.
ExcerptOf(post) ==
  IF FileOf(dir, post.slug).fm.excerpt # Undefined
  THEN FileOf(dir, post.slug).fm.excerpt
  ELSE generateExcerpt(FileOf(dir, post.slug).body)

\* C16: whenever the front matter has an excerpt key, the excerpt of the post
\* is the supplied value, exactly; it is derived from the body only when there
\* is no such key; in getAllPosts and in getPostBySlug.
SuppliedExcerptIsKept ==
  /\ (op = "getAllPosts" /\ ret.ok)
       => \A k \in 1..Len(ret.val) : ret.val[k].excerpt = ExcerptOf(ret.val[k])
  /\ (op = "getPostBySlug" /\ ret.ok /\ ret.val # Null)
       => ret.val.excerpt = ExcerptOf(ret.val)

\* The characters of the Markdown markers that generateExcerpt strips.
MarkerChars == {"#", "*", "[", "]", "(", ")", Backtick}

RECURSIVE JoinWithSpaces(_)
JoinWithSpaces(lines) ==
  IF Len(lines) = 0 THEN <<>>
  ELSE IF Len(lines) = 1 THEN lines[1]
  ELSE lines[1] \o <<" ">> \o JoinWithSpaces(Tail(lines))

\* The lines of the first paragraph of a body: from the first line that is
\* not blank up to the next blank line.
ParagraphLines(body) ==
  LET lines == SplitLines(body, 1)
      inked == {i \in 1..Len(lines) : ~IsBlank(lines[i])}
  IN  IF inked = {} THEN <<>>
      ELSE LET first == CHOOSE i \in inked : \A j \in inked : i <= j
               last == CHOOSE j \in first..Len(lines) :
                         /\ \A k \in first..j : k \in inked
                         /\ (j + 1) \in 1..Len(lines) => (j + 1) \notin inked
           IN  SubSeq(lines, first, last)

HasNoMarkers(body) ==
  /\ \A i \in 1..Len(ParagraphLines(body)) :
       \A k \in 1..Len(ParagraphLines(body)[i]) :
         ParagraphLines(body)[i][k] \notin MarkerChars
  /\ ~StartsWith(body, ThreeDashes, 1)

\* C17: for a body whose first paragraph has no Markdown markers the derived
\* excerpt is that paragraph, its newlines turned into single spaces and the
\* whitespace around it trimmed; the body "Hello world." has the excerpt
\* "Hello world." and the reading time 1.
PlainParagraphIsTheExcerpt ==
  /\ (op = "generateExcerpt" /\ HasNoMarkers(text))
       => ret = Trim(JoinWithSpaces(ParagraphLines(text)))
  /\ (op = "generateExcerpt" /\ text = BodyHelloWorld) => ret = BodyHelloWorld
  /\ (op = "calculateReadingTime" /\ text = BodyHelloWorld) => ret = 1

\* The excerpt of a body whose first paragraph has two lines has been derived.
PlainParagraphIsTheExcerptWitness ==
  /\ op = "generateExcerpt"
  /\ HasNoMarkers(text)
  /\ Len(ParagraphLines(text)) = 2
  /\ ret = <<"a", " ", "a">>

\* The excerpt of a post was derived: its file has no excerpt key, or an
\* empty one.
IsDerived(post) == ~Truthy(FileOf(dir, post.slug).fm.excerpt)

PageBelowOneIsEmpty ==
  (op = "getPostsPage" /\ arg.page < 1 /\ getAllPosts(dir).ok) =>
    /\ ret.ok
    /\ ret.val.posts = <<>>

\* C29: on every page p of 1..totalPages the flags of the listing agree with
\* the page count: hasPrevPage exactly when p > 1, hasNextPage exactly when
\* p < totalPages.
FlagsAgreeWithPageCount ==
  (op = "getPostsPage" /\ ret.ok /\ arg.page \in 1..ret.val.totalPages) =>
    /\ ret.val.hasPrevPage = (arg.page > 1)
    /\ ret.val.hasNextPage = (arg.page < ret.val.totalPages)

\* A last page that is full, after at least one other page.
FlagsAgreeWithPageCountWitness ==
  /\ op = "getPostsPage"
  /\ ret.ok
  /\ arg.page = ret.val.totalPages
  /\ arg.page > 1
  /\ Len(ret.val.posts) = arg.postsPerPage
  /\ ret.val.hasPrevPage
  /\ ~ret.val.hasNextPage

\* C24: PostCard shows an excerpt of at most 150 characters as it is and a
\* longer one as its first 150 characters followed by "...", hence never more
\* than 153 characters; for an empty or absent excerpt it shows nothing.
CardExcerptIsShortened ==
  op = "PostCard" =>
    /\ ret.ok
    /\ Len(ret.val.excerpt) <= ExcerptLimit + 3
    /\ (arg.excerpt = Undefined \/ arg.excerpt = <<>>)
         => (~ret.val.paragraph /\ ret.val.excerpt = <<>>)
    /\ (arg.excerpt # Undefined /\ Len(arg.excerpt) \in 1..ExcerptLimit)
         => (ret.val.paragraph /\ ret.val.excerpt = arg.excerpt)
    /\ (arg.excerpt # Undefined /\ Len(arg.excerpt) > ExcerptLimit)
         => /\ ret.val.paragraph
            /\ ret.val.excerpt
                 = [i \in 1..(ExcerptLimit + 3) |->
                      IF i <= ExcerptLimit THEN arg.excerpt[i] ELSE "."]

\* An excerpt of 151 characters has been shown as 153.
CardExcerptIsShortenedWitness ==
  /\ op = "PostCard"
  /\ arg.excerpt # Undefined
  /\ Len(arg.excerpt) = ExcerptLimit + 1
  /\ ret.ok
  /\ Len(ret.val.excerpt) = ExcerptLimit + 3

\* A front-matter block at the start of a text: a first line of three dashes
\* and a later line of three dashes that closes it.
BeginsWithFrontMatterBlock(s) ==
  LET lines == SplitLines(s, 1)
  IN  /\ lines[1] = ThreeDashes
      /\ \E i \in 2..Len(lines) : lines[i] = ThreeDashes

\* The excerpt of a body from which nothing is removed before it is split
\* into paragraphs.
ExcerptOfWholeBody(body) ==
  Bind(FirstParagraph(Trim(body)), LAMBDA p0 :
  Bind(RemoveHeaders(p0, 1), LAMBDA p1 :
  Bind(UnwrapPairs(p1, <<"*", "*">>, 1), LAMBDA p2 :
  Bind(UnwrapPairs(p2, <<"*">>, 1), LAMBDA p3 :
  Bind(UnwrapLinks(p3, 1), LAMBDA p4 :
  Bind(UnwrapPairs(p4, <<Backtick>>, 1), LAMBDA p5 :
    Trim(NewlinesToSpaces(p5, 1))))))))

\* C22: when the body handed to generateExcerpt does not begin with a
\* front-matter block nothing is removed from it before it is split into
\* paragraphs: the excerpt is that of its first paragraph that is not empty,
\* also when the body starts with a line of three dashes.
NothingRemovedWithoutFrontMatter ==
  (op = "generateExcerpt" /\ ~BeginsWithFrontMatterBlock(text)) =>
    /\ ret = ExcerptOfWholeBody(text)
    /\ Trim(text) # <<>> => ret # <<>>

\* The indices of an HTML text at which a placeholder element starts, and the
\* element that starts at one of them.
PlaceholderStarts(html) ==
  {i \in 1..Len(html) :
     /\ StartsWith(html, PlaceholderOpen, i)
     /\ IndexOf(html, <<"\"">>, i + Len(PlaceholderOpen)) > 0
     /\ StartsWith(html, PlaceholderClose,
                   IndexOf(html, <<"\"">>, i + Len(PlaceholderOpen)))}
PayloadAt(html, i) ==
  SubSeq(html, i + Len(PlaceholderOpen),
         IndexOf(html, <<"\"">>, i + Len(PlaceholderOpen)) - 1)

\* The k-th smallest element of a set of numbers.
Nth(S, k) == CHOOSE i \in S : Cardinality({j \in S : j <= i}) = k

\* The HTML text a sequence of parts stands for: a div gives its HTML, the
\* k-th MermaidDiagram the placeholder with the k-th payload.
RECURSIVE Reassembled(_, _)
Reassembled(parts, payloads) ==
  IF Len(parts) = 0 THEN <<>>
  ELSE IF Head(parts).component = "div"
  THEN Head(parts).html \o Reassembled(Tail(parts), payloads)
  ELSE IF Len(payloads) = 0 THEN Reassembled(Tail(parts), payloads)
  ELSE PlaceholderOpen \o Head(payloads) \o PlaceholderClose
         \o Reassembled(Tail(parts), Tail(payloads))

\* C23: for HTML with k placeholder elements renderContentWithMermaid gives
\* exactly k MermaidDiagram components, in the order of the document, the
\* k-th with the decoded payload of the k-th placeholder, and the HTML
\* between them unchanged and in its order.
HydrationSplitsWithoutLoss ==
  (op = "renderContentWithMermaid" /\ arg = text) =>
    LET starts == PlaceholderStarts(text)
        payloads == [k \in 1..Cardinality(starts) |->
                       PayloadAt(text, Nth(starts, k))]
    IN  /\ Len(Diagrams(ret)) = Len(payloads)
        /\ \A k \in 1..Len(payloads) :
             k <= Len(Diagrams(ret))
               => Diagrams(ret)[k].chart = Utf8Decode(Base64Decode(payloads[k]))
        /\ Reassembled(ret, payloads) = text

\* The calls of mermaid.render that component i has started.
CallsOf(i) == {k \in 1..Len(screen.calls) : screen.calls[k].component = i}

\* C25: when the chart prop of a mounted diagram has changed while an earlier
\* render was in flight, then once every render that was started has settled,
\* in whatever order, the mount point shows the output for the latest chart.
LatestChartIsShown ==
  \A i \in 1..Len(screen.components) :
    (/\ screen.components[i].mounted
     /\ ~screen.components[i].pending
     /\ CallsOf(i) # {}
     /\ \A k \in CallsOf(i) : screen.calls[k].state # "inflight")
      => screen.components[i].innerHTML.chart = screen.components[i].chart

\* C26: a render that settles, with either outcome, after its component has
\* unmounted writes nothing: the content of the mount point of an unmounted
\* component never changes.
NoWriteAfterUnmount ==
  [][\A i \in 1..Len(screen.components) :
       ~screen.components[i].mounted
         => screen'.components[i].innerHTML = screen.components[i].innerHTML]_vars

\* A render has settled after its component unmounted: the component has a
\* settled call and its mount point is as empty as it was.
NoWriteAfterUnmountWitness ==
  \E i \in 1..Len(screen.components) :
    /\ ~screen.components[i].mounted
    /\ screen.components[i].last # 0
    /\ screen.calls[screen.components[i].last].state = "error"
    /\ screen.components[i].innerHTML = NoOutput

\* C27: getPostBySlug agrees with the listing: it returns a post exactly for
\* the slugs of the posts of getAllPosts, and that post has the title, date,
\* excerpt, content and readingTime of the listed one.
GetPostBySlugAgreesWithListing ==
  (op = "getPostBySlug" /\ getAllPosts(dir).ok) =>
    LET listed == {k \in 1..Len(getAllPosts(dir).val) :
                     getAllPosts(dir).val[k].slug = arg.slug}
    IN  /\ ret.ok
        /\ (ret.val # Null) <=> (listed # {})
        /\ \A k \in listed : ret.val = getAllPosts(dir).val[k]

\* The number of pages of a directory whose listing exists.
TotalPages(d) == Ceil(Len(getAllPosts(d).val), PostsPerPage)

\* The places in the listing of the posts of page p.
PlacesOfPage(d, p) ==
  {k \in 1..Len(getAllPosts(d).val) :
     ((p - 1) * PostsPerPage) < k /\ k <= p * PostsPerPage}

\* A decimal numeral: digits and nothing else.
IsNumeral(s) == s # <<>> /\ \A i \in 1..Len(s) : IsDigit(s[i])

\* The page route renders a listing for some addresses that are no numerals.
PageRouteRendersNumeralsOnly ==
  (op = "PageNumberPage" /\ getAllPosts(dir).ok) =>
    IF /\ IsNumeral(arg.pageNumber)
       /\ parseInt(arg.pageNumber).value \in 1..TotalPages(dir)
    THEN ret.ok => ret.val.view = "listing"
    ELSE ret = Returned(NotFoundView)

\* C21: the page route /page/<n> renders a listing exactly when parseInt of n
\* is an integer in 1..totalPages, which it also is for a numeral followed by
\* other characters or preceded by white space; when parseInt gives NaN, a
\* number below 1 or one above totalPages the route ends in notFound; a
\* listing never has zero posts. The route throws only what getAllPosts or a
\* PostCard of the page throws.
PageRouteRendersParsedPages ==
  op = "PageNumberPage" =>
    LET page == parseInt(arg.pageNumber)
    IN  IF page.nan \/ page.value < 1 THEN ret = Returned(NotFoundView)
        ELSE IF ~getAllPosts(dir).ok THEN ret = getAllPosts(dir)
        ELSE IF page.value > TotalPages(dir) THEN ret = Returned(NotFoundView)
        ELSE IF \E k \in PlacesOfPage(dir, page.value) :
                  ~PostCard(getAllPosts(dir).val[k]).ok
        THEN ~ret.ok
        ELSE /\ ret.ok
             /\ ret.val.view = "listing"
             /\ Len(ret.val.cards) = Cardinality(PlacesOfPage(dir, page.value))
             /\ Len(ret.val.cards) \in 1..PostsPerPage

\* The address /page/2x has rendered the second page of a listing.
PageRouteRendersParsedPagesWitness ==
  /\ op = "PageNumberPage"
  /\ arg.pageNumber = <<"2", "x">>
  /\ ret.ok
  /\ ret.val.view = "listing"
  /\ ret.val.pagination.currentPage = 2

\* C28: for any number of posts generateStaticParams of the page route
\* gives the page numbers 2..totalPages, none when there is at most one page,
\* and each page it gives renders a listing of 1 to 5 posts: no page of the
\* build ends in notFound.
StaticPagesRender ==
  /\ op = "generateStaticParams"
       => /\ ret.ok
          /\ Len(ret.val) = Max(TotalPages(dir) - 1, 0)
          /\ \A k \in 1..Len(ret.val) :
               ret.val[k].pageNumber = NumberToString(k + 1)
  /\ op = "PageNumberPage"
       => /\ ret.ok
          /\ ret.val.view = "listing"
          /\ Len(ret.val.cards) \in 1..PostsPerPage
          /\ parseInt(arg.pageNumber).value \in 2..TotalPages(dir)

\* The last page of the build has been rendered, with a single post.
StaticPagesRenderWitness ==
  /\ op = "PageNumberPage"
  /\ parseInt(arg.pageNumber).value = TotalPages(dir)
  /\ TotalPages(dir) >= 3
  /\ ret.ok
  /\ ret.val.view = "listing"
  /\ Len(ret.val.cards) = 1

\* The page a link of Pagination leads to is a listing of page p.
LeadsToPage(link, p) ==
  /\ Route(dir, link.href).ok
  /\ Route(dir, link.href).val.view = "listing"
  /\ Route(dir, link.href).val.pagination.currentPage = p

\* The links of the Pagination on the screen are as they should be: Newer
\* posts is a link from page 2 on, to "/" from page 2 and to /page/(p-1)
\* otherwise; Older posts is a link exactly when page p+1 has posts, to
\* /page/(p+1); both lead to a listing of the page they name.
LinksAreValid ==
  ShowsPagination =>
    LET p == ret.val.pagination.currentPage
        newer == ret.val.pagination.newer
        older == ret.val.pagination.older
    IN  /\ newer.link <=> (p > 1)
        /\ newer.link
             => /\ newer.href = IF p = 2 THEN <<"/">>
                               ELSE PagePath \o NumberToString(p - 1)
                /\ LeadsToPage(newer, p - 1)
        /\ older.link <=> (p < TotalPages(dir))
        /\ older.link
             => /\ older.href = PagePath \o NumberToString(p + 1)
                /\ LeadsToPage(older, p + 1)

\* The reader is on the last page: a listing with no link to older posts.
OnLastPage ==
  /\ op \in {"Home", "PageNumberPage"}
  /\ ret.ok
  /\ ret.val.view = "listing"
  /\ IF ret.val.pagination = Null THEN TotalPages(dir) <= 1
     ELSE /\ ret.val.pagination.currentPage = TotalPages(dir)
          /\ ~ret.val.pagination.older.link

\* C30: the navigation of Pagination is closed and complete: every link on a
\* valid page leads to a valid page, each step along Older posts goes from
\* page p to page p+1, and a reader who starts at the home page and keeps
\* following Older posts comes to the last page, where there is no further
\* link.
OlderPostsVisitsEveryPage ==
  /\ []LinksAreValid
  /\ [][FollowOlder =>
          /\ ret'.ok
          /\ ret'.val.view = "listing"
          /\ ret'.val.pagination.currentPage = ret.val.pagination.currentPage + 1
          /\ ret'.val.pagination.currentPage <= TotalPages(dir)]_vars
  /\ (op = "Home" /\ ret.ok) ~> OnLastPage

\* The reader has come to the third and last page along Older posts.
OlderPostsVisitsEveryPageWitness ==
  /\ op = "PageNumberPage"
  /\ ShowsPagination
  /\ ret.val.pagination.currentPage = 3
  /\ TotalPages(dir) = 3
  /\ ret.val.pagination.newer.link
  /\ ~ret.val.pagination.older.link

====
